---- MODULE Spec2Model ----
(***************************************************************************)
(* A model of the styled QR synthesis code of the qr-service and of the    *)
(* gateway's circuit breaker:                                              *)
(*   src/microservices/qr-service/app/qr_utils.py                          *)
(*   src/microservices/qr-service/app/shared/models.py                     *)
(*   src/microservices/api-gateway/circuit_breaker.py                      *)
(* Text values are sequences of one-character strings, so that stripping,  *)
(* slicing and joining are computed as the code computes them.             *)
(***************************************************************************)
EXTENDS Integers, Sequences, FiniteSets, TLC

VARIABLES
    phone,        \* format_phone_number: the argument
    formatted,    \* format_phone_number: the outcomes of the calls made, in order
    color,        \* a colour option as supplied by the caller
    accepted,     \* QRDesignOptions.validate_color: the outcomes of the calls made
    rgb,          \* hex_to_rgb: the outcomes of the calls made
    vcard_data,   \* the contact record handed to generate_vcard_content
    now,          \* the clock datetime.utcnow() reads, in seconds
    payloads,     \* generate_vcard_content: the outcomes of the calls made, in order
    pc,           \* where a synthesis call stands
    design,       \* the caller's keyword arguments for QRDesignOptions
    notes_more,   \* how many plain characters the notes go on for after vcard_data.notes
    style_config, \* the QRDesignOptions object, once built
    vcard_content,\* the payload text, once encoded
    qr,           \* the qrcode.QRCode object, once made
    qr_image,     \* the image being drawn
    files,        \* what the file system and the network hold when the logo is looked for
    ran,          \* the steps of generate_vcard_qr that have run
    error,        \* the exception that left the call
    result,       \* the PNG bytes returned
    calls,        \* concurrent calls of generate_vcard_qr: each call's locals
    heap,         \* the drawer and image objects those calls have created
    services,     \* CircuitBreaker.services: the state recorded for a service name
    failures,     \* CircuitBreaker.failures
    last_failure_time, \* CircuitBreaker.last_failure_time, <<>> for None
    clock,        \* the clock the gateway's datetime.utcnow() reads, in seconds
    pending,      \* the call_service calls that are awaiting their wrapped function
    own_failures, \* history: failed calls of a service since it was last set CLOSED
    last_failed,  \* history: when a call of a service last failed, <<>> for never
    last          \* history: the step of call_service taken last

phoneVars == <<phone, formatted>>

colorVars == <<color, accepted, rgb>>

encoderVars == <<vcard_data, now, payloads>>

callVars ==
    <<pc, design, notes_more, style_config, vcard_content, qr, qr_image, files, ran,
      error, result>>

vars ==
    <<phone, formatted, color, accepted, rgb, vcard_data, now, payloads,
      pc, design, notes_more, style_config, vcard_content, qr, qr_image, files, ran,
      error, result, calls, heap,
      services, failures, last_failure_time, clock, pending, own_failures, last_failed,
      last>>

pairVars == <<calls, heap>>

breakerVars ==
    <<services, failures, last_failure_time, clock, pending, own_failures, last_failed,
      last>>

BreakerIdle ==
    /\ services = <<>> /\ failures = 0 /\ last_failure_time = <<>> /\ clock = 0
    /\ pending = <<>> /\ own_failures = <<>> /\ last_failed = <<>> /\ last = <<>>

PairIdle == calls = <<>> /\ heap = [drawers |-> <<>>, canvases |-> <<>>]

PhoneIdle == phone = <<>> /\ formatted = <<>>

ColorIdle == color = <<>> /\ accepted = <<>> /\ rgb = <<>>

EncoderIdle == vcard_data = <<>> /\ now = 0 /\ payloads = <<>>

CallIdle ==
    /\ pc = "idle" /\ design = <<>> /\ notes_more = 0 /\ style_config = <<>>
    /\ vcard_content = <<>> /\ qr = <<>> /\ qr_image = <<>> /\ files = <<>>
    /\ ran = {} /\ error = "None" /\ result = <<>>

(***************************************************************************)
(* Text helpers                                                            *)
(***************************************************************************)
Digits == {"0", "1", "2", "3", "4", "5", "6", "7", "8", "9"}

HexDigits == Digits \cup {"a", "b", "c", "d", "e", "f", "A", "B", "C", "D", "E", "F"}

RECURSIVE Rep(_, _)
Rep(c, n) == IF n <= 0 THEN <<>> ELSE <<c>> \o Rep(c, n - 1)

\* str.startswith
StartsWith(s, p) == Len(s) >= Len(p) /\ SubSeq(s, 1, Len(p)) = p

\* s[i:j] of Python, 0-based, j exclusive, clipped to the string
Slice(s, i, j) == SubSeq(s, i + 1, IF j < Len(s) THEN j ELSE Len(s))

\* str.lstrip(chars)
RECURSIVE LStrip(_, _)
LStrip(s, chars) == IF s # <<>> /\ Head(s) \in chars THEN LStrip(Tail(s), chars) ELSE s

RECURSIVE RStrip(_, _)
RStrip(s, chars) ==
    IF s # <<>> /\ s[Len(s)] \in chars THEN RStrip(SubSeq(s, 1, Len(s) - 1), chars) ELSE s

(***************************************************************************)
(* format_phone_number (qr_utils.py 139-164)                               *)
(***************************************************************************)
IsDigit(c) == c \in Digits

Raised(kind) == [ok |-> FALSE, error |-> kind]

Returned(v) == [ok |-> TRUE, value |-> v]

\* A plausible slip: every leading 0 is removed instead of one.
format_phone_number_all_zeros(p) ==
    IF p = <<>> THEN Returned(<<>>)
    ELSE LET digits == LStrip(SelectSeq(p, IsDigit), {"0"})
             full == IF ~StartsWith(digits, <<"9", "1">>) /\ Len(digits) = 10
                     THEN <<"9", "1">> \o digits ELSE digits
         IN IF Len(full) < 11 \/ Len(full) > 15
            THEN Raised("ValueError") ELSE Returned(<<"+">> \o full)

\* A plausible slip: the '+' is not put back in front of the digits.
format_phone_number_no_plus(p) ==
    IF p = <<>> THEN Returned(<<>>)
    ELSE LET digits == SelectSeq(p, IsDigit)
             national == IF StartsWith(digits, <<"0">>) THEN Tail(digits) ELSE digits
             full == IF ~StartsWith(national, <<"9", "1">>) /\ Len(national) = 10
                     THEN <<"9", "1">> \o national ELSE national
         IN IF Len(full) < 11 \/ Len(full) > 15
            THEN Raised("ValueError") ELSE Returned(full)

\* A plausible slip: 91 is put in front of any 10 digits, whatever they start
\* with.
format_phone_number_any_ten(p) ==
    IF p = <<>> THEN Returned(<<>>)
    ELSE LET digits == SelectSeq(p, IsDigit)
             national == IF StartsWith(digits, <<"0">>) THEN Tail(digits) ELSE digits
             full == IF Len(national) = 10 THEN <<"9", "1">> \o national ELSE national
         IN IF Len(full) < 11 \/ Len(full) > 15
            THEN Raised("ValueError") ELSE Returned(<<"+">> \o full)

format_phone_number(p) ==
    IF p = <<>> THEN Returned(<<>>)                                  \* if not phone: return ""
    ELSE LET digits == SelectSeq(p, IsDigit)                         \* filter(str.isdigit, phone)
             national == IF StartsWith(digits, <<"0">>) THEN Tail(digits) ELSE digits
             noplus == IF StartsWith(national, <<"+">>) THEN Tail(national) ELSE national
             full == IF ~StartsWith(noplus, <<"9", "1">>) /\ Len(noplus) = 10
                     THEN <<"9", "1">> \o noplus ELSE noplus
         IN IF Len(full) < 11 \/ Len(full) > 15
            THEN Raised("ValueError") ELSE Returned(<<"+">> \o full)

(***************************************************************************)
(* Inputs of the phone specification: an optional '+', leading zeros, an   *)
(* optional 91 or 1 prefix, an optional separator and a run of one digit.  *)
(***************************************************************************)
MaxZeros == 2
MaxRun == 16

PhoneInputs ==
    { pre \o Rep("0", z) \o head \o sep \o Rep(d, k) :
        pre \in {<<>>, <<"+">>}, z \in 0..MaxZeros,
        head \in {<<>>, <<"9", "1">>, <<"1">>}, sep \in {<<>>, <<"-">>, <<" ", "(">>},
        d \in {"5", "0"}, k \in 0..MaxRun }

InitPhone ==
    /\ phone \in PhoneInputs
    /\ formatted = <<>>
    /\ ColorIdle /\ EncoderIdle /\ CallIdle /\ PairIdle /\ BreakerIdle

Normalize ==
    /\ formatted = <<>>
    /\ formatted' = <<format_phone_number(phone)>>
    /\ UNCHANGED <<phone, colorVars, encoderVars, callVars, pairVars, breakerVars>>

\* the caller hands a returned number to format_phone_number again
NormalizeAgain ==
    /\ Len(formatted) = 1 /\ formatted[1].ok
    /\ formatted' = Append(formatted, format_phone_number(formatted[1].value))
    /\ UNCHANGED <<phone, colorVars, encoderVars, callVars, pairVars, breakerVars>>

NextPhone == Normalize \/ NormalizeAgain

SpecPhone == InitPhone /\ [][NextPhone]_vars

(***************************************************************************)
(* Colour options: QRDesignOptions.validate_color (models.py 45-49),       *)
(* hex_to_rgb and validate_color (qr_utils.py 21-27, 55-65)                *)
(***************************************************************************)
HexOrder == <<"0", "1", "2", "3", "4", "5", "6", "7", "8", "9",
              "a", "b", "c", "d", "e", "f">>

LowerHex(c) ==
    CASE c = "A" -> "a" [] c = "B" -> "b" [] c = "C" -> "c"
      [] c = "D" -> "d" [] c = "E" -> "e" [] c = "F" -> "f" [] OTHER -> c

HexVal(c) == (CHOOSE i \in 1..16 : HexOrder[i] = LowerHex(c)) - 1

\* A plausible slip: the '#' is optional, as hex_to_rgb tolerates.
QRDesignOptions_validate_color_optional_hash(v) ==
    LET t == IF Len(v) > 0 /\ v[Len(v)] = "\n" THEN SubSeq(v, 1, Len(v) - 1) ELSE v
        h == IF StartsWith(t, <<"#">>) THEN Tail(t) ELSE t
    IN Len(h) = 6 /\ \A i \in 1..6 : h[i] \in HexDigits

\* re.match(r'^#[0-9A-Fa-f]{6}$', v): '$' also matches before one final newline
QRDesignOptions_validate_color(v) ==
    /\ Len(v) = 7 \/ (Len(v) = 8 /\ v[8] = "\n")
    /\ v[1] = "#"
    /\ \A i \in 2..7 : v[i] \in HexDigits

\* validate_color(color: tuple) of qr_utils.py
validate_color(c) == Len(c) = 3 /\ \A i \in 1..3 : c[i] \in 0..255

\* int(text, 16): surrounding whitespace is dropped, then every character
\* must be a hex digit and there must be at least one; -1 stands for the
\* ValueError int() raises otherwise
IntBase16(text) ==
    LET t == RStrip(LStrip(text, {"\n", " "}), {"\n", " "})
    IN IF t = <<>> \/ \E i \in 1..Len(t) : t[i] \notin HexDigits
       THEN -1
       ELSE IF Len(t) = 1 THEN HexVal(t[1]) ELSE 16 * HexVal(t[1]) + HexVal(t[2])

hex_to_rgb(hex_color) ==
    LET s == LStrip(hex_color, {"#"})
        parts == [k \in 1..3 |-> IntBase16(Slice(s, 2 * (k - 1), 2 * k))]
    IN IF \E k \in 1..3 : parts[k] = -1 THEN Raised("ValueError")
       ELSE IF ~validate_color(parts) THEN Raised("ValueError")
       ELSE Returned(parts)

(***************************************************************************)
(* Inputs of the colour specification: up to two '#', a run of hex digits  *)
(* taken from a rotating alphabet, at most one foreign character, and an   *)
(* optional final newline.                                                 *)
(***************************************************************************)
MaxHashes == 2
MaxHexLen == 7

HexCycle == <<"0", "f", "5", "B", "a", "F", "9">>

HexRun(k, o) == [i \in 1..k |-> HexCycle[((i + o) % Len(HexCycle)) + 1]]

Spoil(s, at, c) == [i \in 1..Len(s) |-> IF i = at THEN c ELSE s[i]]

ColorInputs ==
    { Rep("#", h) \o Spoil(HexRun(k, o), at, "g") \o tail :
        h \in 0..MaxHashes, k \in 0..MaxHexLen, o \in 0..2, at \in 0..MaxHexLen,
        tail \in {<<>>, <<"\n">>} }
    \cup {<<"r", "e", "d">>}

InitColor ==
    /\ color \in ColorInputs
    /\ accepted = <<>> /\ rgb = <<>>
    /\ PhoneIdle /\ EncoderIdle /\ CallIdle /\ PairIdle /\ BreakerIdle

\* the validator runs when the options object is built
ValidateColor ==
    /\ accepted = <<>>
    /\ accepted' = <<IF QRDesignOptions_validate_color(color)
                     THEN Returned(color) ELSE Raised("ValueError")>>
    /\ UNCHANGED <<color, rgb, phoneVars, encoderVars, callVars, pairVars, breakerVars>>

\* hex_to_rgb runs on the stored option
ConvertColor ==
    /\ accepted # <<>> /\ accepted[1].ok
    /\ rgb = <<>>
    /\ rgb' = <<hex_to_rgb(accepted[1].value)>>
    /\ UNCHANGED <<color, accepted, phoneVars, encoderVars, callVars, pairVars, breakerVars>>

NextColor == ValidateColor \/ ConvertColor

SpecColor == InitColor /\ [][NextColor]_vars

(***************************************************************************)
(* generate_vcard_content (qr_utils.py 166-275).  A contact record is a    *)
(* dict: a function from the keys present to their values.                 *)
(***************************************************************************)
Get(d, k, default) == IF k \in DOMAIN d THEN d[k] ELSE default

\* dict.get(k) is truthy: the key is present and its value is not empty
Has(d, k) == k \in DOMAIN d /\ d[k] # <<>>

RECURSIVE Join(_, _)
Join(lines, sep) ==
    IF lines = <<>> THEN <<>>
    ELSE IF Len(lines) = 1 THEN lines[1]
    ELSE lines[1] \o sep \o Join(Tail(lines), sep)

CRLF == <<"\r", "\n">>

\* str.replace(old, new) for a one-character old
RECURSIVE Replace(_, _, _)
Replace(s, old, new) ==
    IF s = <<>> THEN <<>>
    ELSE (IF Head(s) = old THEN new ELSE <<Head(s)>>) \o Replace(Tail(s), old, new)

process_profile_photo(photo_data) ==
    IF StartsWith(photo_data, <<"d", "a", "t", "a", ":", "i", "m", "a", "g", "e">>)
    THEN <<"URL", photo_data>>
    ELSE <<"URL", photo_data>>

DigitChar(n) == HexOrder[n + 1]

TwoDigits(n) == <<DigitChar(n \div 10), DigitChar(n % 10)>>

\* The clock counts the seconds of one day; RunDate is that day.
RunDate == <<"2", "0", "2", "4", "0", "1", "0", "1">>

\* datetime.utcnow().strftime('%Y%m%dT%H%M%SZ')
strftime(t) ==
    RunDate \o <<"T">> \o TwoDigits((t \div 3600) % 24) \o TwoDigits((t \div 60) % 60)
        \o TwoDigits(t % 60) \o <<"Z">>

AddressFields == <<"street", "city", "state", "zip_code", "country">>

\* filter(None, parts)
NonEmpty(parts) == SelectSeq(parts, LAMBDA x : x # <<>>)

AddressLines(data) ==
    IF "address" \in DOMAIN data /\ DOMAIN data["address"] # {}
    THEN LET addr == data["address"]
             part == [i \in 1..5 |-> Get(addr, AddressFields[i], <<>>)]
         IN IF \E i \in 1..5 : Has(addr, AddressFields[i])
            THEN << <<"A", "D", "R", ";", "T", "Y", "P", "E", "=", "W", "O", "R", "K", ":">> \o Join(<< <<>>, <<>> >> \o part, <<";">>),
                    <<"L", "A", "B", "E", "L", ";", "T", "Y", "P", "E", "=", "W", "O", "R", "K", ":">> \o Join(NonEmpty(part), <<",", " ">>) >>
            ELSE <<>>
    ELSE <<>>

\* REV:<utcnow>
RevisionLine(t) == <<"R", "E", "V", ":">> \o strftime(t)

\* A plausible slip: line feeds are escaped and carriage returns are kept.
EscapeNotes_keeps_cr(notes_content) == Replace(notes_content, "\n", <<"\\", "n">>)

\* notes_content.replace('\n', '\\n').replace('\r', '')
EscapeNotes(notes_content) ==
    Replace(Replace(notes_content, "\n", <<"\\", "n">>), "\r", <<>>)

generate_vcard_content(data, t) ==
    LET first_name == Get(data, "first_name", <<>>)
        last_name == Get(data, "last_name", <<>>)
        mobile == IF Has(data, "mobile_number")
                  THEN <<format_phone_number(data["mobile_number"])>> ELSE <<>>
        work == IF Has(data, "work_number")
                THEN <<format_phone_number(data["work_number"])>> ELSE <<>>
        head == << <<"B", "E", "G", "I", "N", ":", "V", "C", "A", "R", "D">>,
                   <<"V", "E", "R", "S", "I", "O", "N", ":", "3", ".", "0">>,
                   <<"N", ":">> \o last_name \o <<";">> \o first_name \o <<";", ";", ";">>,
                   <<"F", "N", ":">> \o first_name \o <<" ">> \o last_name >>
        photo == IF Has(data, "profile_picture")
                 THEN << <<"P", "H", "O", "T", "O", ";", "V", "A", "L", "U", "E", "=", "U", "R", "I", ":">> \o process_profile_photo(data["profile_picture"])[2] >>
                 ELSE <<>>
        tel1 == IF mobile # <<>> /\ mobile[1].ok
                THEN << <<"T", "E", "L", ";", "T", "Y", "P", "E", "=", "C", "E", "L", "L", ",", "V", "O", "I", "C", "E", ":">> \o mobile[1].value >> ELSE <<>>
        tel2 == IF work # <<>> /\ work[1].ok
                THEN << <<"T", "E", "L", ";", "T", "Y", "P", "E", "=", "W", "O", "R", "K", ",", "V", "O", "I", "C", "E", ":">> \o work[1].value >> ELSE <<>>
        email == IF Has(data, "email")
                 THEN << <<"E", "M", "A", "I", "L", ";", "T", "Y", "P", "E", "=", "I", "N", "T", "E", "R", "N", "E", "T", ":">> \o data["email"] >> ELSE <<>>
        org == IF Has(data, "company")
               THEN << <<"O", "R", "G", ":">> \o data["company"] >> ELSE <<>>
        title == IF Has(data, "title")
                 THEN << <<"T", "I", "T", "L", "E", ":">> \o data["title"] >> ELSE <<>>
        url == IF Has(data, "website")
               THEN << <<"U", "R", "L", ":">> \o data["website"] >> ELSE <<>>
        note == IF Has(data, "notes")
                THEN << <<"N", "O", "T", "E", ":">> \o EscapeNotes(data["notes"]) >>
                ELSE <<>>
        vcard_lines == head \o photo \o tel1 \o tel2 \o email \o org \o title \o url
                         \o AddressLines(data) \o note
                         \o <<RevisionLine(t)>> \o << <<"E", "N", "D", ":", "V", "C", "A", "R", "D">> >>
    IN IF (mobile # <<>> /\ ~mobile[1].ok) \/ (work # <<>> /\ ~work[1].ok)
       THEN Raised("ValueError")
       ELSE Returned(Join(vcard_lines, CRLF))

(***************************************************************************)
(* Inputs of the encoder specification: records that carry at most one or  *)
(* all but at most one of the optional fields, with a few values for the   *)
(* mobile number and the address.                                          *)
(***************************************************************************)
MaxClock == 2
MaxCalls == 2

Restrict(d, ks) == [k \in ks |-> d[k]]

FullAddress ==
    [street |-> <<"1", " ", "M", "G", " ", "R", "d">>, city |-> <<"P", "u", "n", "e">>, state |-> <<"M", "H">>,
     zip_code |-> <<"4", "1", "1", "0", "0", "1">>, country |-> <<"I", "N">>]

FullRecord ==
    [first_name |-> <<"A", "l">>, last_name |-> <<"B", "o">>,
     profile_picture |-> <<"h", "t", "t", "p", ":", "/", "/", "p", ".", "i", "o", "/", "a", ".", "p", "n", "g">>,
     mobile_number |-> <<"9", "8", "7", "6", "5", "4", "3", "2", "1", "0">>,
     work_number |-> <<"+", "9", "1", " ", "(", "2", "2", ")", " ", "5", "5", "5", "5", "-", "0", "0", "0", "0">>,
     email |-> <<"a", "l", "@", "b", "o", ".", "i", "o">>, company |-> <<"C", "o">>, title |-> <<"D", "r">>,
     website |-> <<"h", "t", "t", "p", "s", ":", "/", "/", "b", "o", ".", "i", "o">>, address |-> FullAddress,
     notes |-> <<"h", "i", "\n", "x", "\r">>]

OptionalKeys ==
    {"profile_picture", "mobile_number", "work_number", "email", "company",
     "title", "website", "address", "notes"}

KeySets ==
    { ks \in SUBSET OptionalKeys :
        Cardinality(ks) <= 1 \/ Cardinality(ks) >= Cardinality(OptionalKeys) - 1 }

MobileValues == {<<"9", "8", "7", "6", "5", "4", "3", "2", "1", "0">>, <<"1", "2", "3">>, <<>>}

AddressValues ==
    {FullAddress, Restrict(FullAddress, {"city"}),
     [street |-> <<>>, city |-> <<>>, state |-> <<>>, zip_code |-> <<>>,
      country |-> <<"I", "N">>],
     [street |-> <<>>, city |-> <<>>]}

WithValues(d, m, a) ==
    [k \in DOMAIN d |-> IF k = "mobile_number" THEN m
                        ELSE IF k = "address" THEN a ELSE d[k]]

Records ==
    { WithValues(Restrict(FullRecord, {"first_name", "last_name"} \cup ks), m, a) :
        ks \in KeySets, m \in MobileValues, a \in AddressValues }

\* records outside the plain ones: names empty or missing, an inline image as
\* the picture, and values that hold the grammar's own separators
SpecialRecords ==
    { Restrict(FullRecord, {"last_name", "email"}),
      [first_name |-> <<"A", "l">>, last_name |-> <<>>],
      [FullRecord EXCEPT !.first_name = <<>>],
      [FullRecord EXCEPT !.profile_picture = <<"d", "a", "t", "a", ":", "i", "m", "a", "g", "e", "/", "p", "n", "g", ";", "b", "a", "s", "e", "6", "4", ",", "Q", "U", "J", "D">>],
      [FullRecord EXCEPT !.last_name = <<"B", ";", "o">>],
      [FullRecord EXCEPT !.address = [FullAddress EXCEPT !.street = <<"1", ";", "M", "G">>]],
      [FullRecord EXCEPT !.company = <<"C", "o", "\r", "\n", "T", "E", "L", ":", "1">>],
      [FullRecord EXCEPT !.notes = <<"a", "\r", "\n", "T", "E", "L", ":", "1", "\r", "\n">>],
      [FullRecord EXCEPT !.notes = <<"\n", "\n", "b", "\\", "n">>],
      [first_name |-> <<"A", "l">>, last_name |-> <<"B", "o">>, notes |-> <<"\r">>] }

InitEncode ==
    /\ vcard_data \in Records \cup SpecialRecords
    /\ now = 0
    /\ payloads = <<>>
    /\ PhoneIdle /\ ColorIdle /\ CallIdle /\ PairIdle /\ BreakerIdle

\* a second of wall-clock time passes
Tick ==
    /\ now < MaxClock
    /\ now' = now + 1
    /\ UNCHANGED <<vcard_data, payloads, phoneVars, colorVars, callVars, pairVars, breakerVars>>

\* one call of generate_vcard_content on the record
Encode ==
    /\ Len(payloads) < MaxCalls
    /\ payloads' = Append(payloads, generate_vcard_content(vcard_data, now))
    /\ UNCHANGED <<vcard_data, now, phoneVars, colorVars, callVars, pairVars, breakerVars>>

NextEncode == Tick \/ Encode

SpecEncode == InitEncode /\ [][NextEncode]_vars

(***************************************************************************)
(* QRDesignOptions (shared/models.py 17-49): the options object is built   *)
(* from the caller's keyword arguments and every validator runs then.      *)
(* logo_size is held in hundredths (0.23 is 23).                           *)
(***************************************************************************)
UpperLetters == <<"A", "B", "C", "D", "E", "F", "G", "H", "I", "J", "K", "L", "M", "N", "O", "P", "Q", "R", "S", "T", "U", "V", "W", "X", "Y", "Z">>

LowerLetters == <<"a", "b", "c", "d", "e", "f", "g", "h", "i", "j", "k", "l", "m", "n", "o", "p", "q", "r", "s", "t", "u", "v", "w", "x", "y", "z">>

LowerChar(c) ==
    IF \E i \in 1..26 : UpperLetters[i] = c
    THEN LowerLetters[CHOOSE i \in 1..26 : UpperLetters[i] = c] ELSE c

\* str.lower
Lower(s) == [i \in 1..Len(s) |-> LowerChar(s[i])]

valid_patterns ==
    {<<"s", "q", "u", "a", "r", "e">>, <<"r", "o", "u", "n", "d", "e", "d">>, <<"d", "o", "t", "s">>,
     <<"g", "a", "p", "p", "e", "d">>, <<"v", "e", "r", "t", "i", "c", "a", "l">>,
     <<"h", "o", "r", "i", "z", "o", "n", "t", "a", "l">>}

valid_levels == {"L", "M", "Q", "H"}

ColorFields == {"foreground_color", "background_color", "eye_color", "module_color"}

\* A plausible slip: the colours are not checked when the object is built
\* and are first looked at by hex_to_rgb.
FieldErrors_colours_unchecked(d) ==
    {f \in {"box_size"} : ~(d.box_size > 0)}
    \cup {f \in {"border"} : ~(d.border >= 0)}
    \cup {f \in {"pattern_style"} : Lower(d.pattern_style) \notin valid_patterns}
    \cup {f \in {"error_correction"} : d.error_correction \notin valid_levels}
    \cup {f \in {"logo_size"} : d.logo_size # 0 /\ ~(d.logo_size > 0 /\ d.logo_size < 100)}

\* the fields whose Field constraint or validator rejects the value
FieldErrors(d) ==
    {f \in {"box_size"} : ~(d.box_size > 0)}
    \cup {f \in {"border"} : ~(d.border >= 0)}
    \cup {f \in ColorFields : ~QRDesignOptions_validate_color(d[f])}
    \cup {f \in {"pattern_style"} : Lower(d.pattern_style) \notin valid_patterns}
    \cup {f \in {"error_correction"} : d.error_correction \notin valid_levels}
    \cup {f \in {"logo_size"} : d.logo_size # 0 /\ ~(d.logo_size > 0 /\ d.logo_size < 100)}

\* QRDesignOptions(**kwargs): the object, with pattern_style lower-cased
QRDesignOptions(d) ==
    IF FieldErrors(d) # {} THEN Raised("ValidationError")
    ELSE Returned([d EXCEPT !.pattern_style = Lower(d.pattern_style)])

\* the defaults of the model class; a logo_url of <<>> and a logo_size of 0
\* stand for None
DefaultDesign ==
    [box_size |-> 10, border |-> 4,
     foreground_color |-> <<"#", "0", "0", "0", "0", "0", "0">>, background_color |-> <<"#", "F", "F", "F", "F", "F", "F">>,
     eye_color |-> <<"#", "f", "f", "4", "d", "2", "6">>, module_color |-> <<"#", "0", "f", "5", "0", "b", "5">>,
     pattern_style |-> <<"d", "o", "t", "s">>, error_correction |-> "Q",
     logo_url |-> <<>>, logo_size |-> 23, logo_background |-> TRUE, logo_round |-> TRUE]

(***************************************************************************)
(* The matrix library as the code uses it: qrcode.QRCode(version=None,     *)
(* error_correction=level), add_data, make(fit=True).  ByteCapacity[v] is  *)
(* the number of 8-bit characters version v holds at levels L, M, Q, H.    *)
(***************************************************************************)
ByteCapacity ==
    << <<17, 14, 11, 7>>, <<32, 26, 20, 14>>, <<53, 42, 32, 24>>, <<78, 62, 46, 34>>,
       <<106, 84, 60, 44>>, <<134, 106, 74, 58>>, <<154, 122, 86, 64>>, <<192, 152, 108, 84>>,
       <<230, 180, 130, 98>>, <<271, 213, 151, 119>>, <<321, 251, 177, 137>>, <<367, 287, 203, 155>>,
       <<425, 331, 241, 177>>, <<458, 362, 258, 194>>, <<520, 412, 292, 220>>, <<586, 450, 322, 250>>,
       <<644, 504, 364, 280>>, <<718, 560, 394, 310>>, <<792, 624, 442, 338>>, <<858, 666, 482, 382>>,
       <<929, 711, 509, 403>>, <<1003, 779, 565, 439>>, <<1091, 857, 611, 461>>, <<1171, 911, 661, 511>>,
       <<1273, 997, 715, 535>>, <<1367, 1059, 751, 593>>, <<1465, 1125, 805, 625>>, <<1528, 1190, 868, 658>>,
       <<1628, 1264, 908, 698>>, <<1732, 1370, 982, 742>>, <<1840, 1452, 1030, 790>>, <<1952, 1538, 1112, 842>>,
       <<2068, 1628, 1168, 898>>, <<2188, 1722, 1228, 958>>, <<2303, 1809, 1283, 983>>, <<2431, 1911, 1351, 1051>>,
       <<2563, 1989, 1423, 1093>>, <<2699, 2099, 1499, 1139>>, <<2809, 2213, 1579, 1219>>, <<2953, 2331, 1663, 1273>> >>

LevelColumn(level) == CASE level = "L" -> 1 [] level = "M" -> 2 [] level = "Q" -> 3 [] level = "H" -> 4

Capacity(v, level) == ByteCapacity[v][LevelColumn(level)]

Versions == 1..Len(ByteCapacity)

Fits(n, level) == \E v \in Versions : n <= Capacity(v, level)

\* QRCode.best_fit: the smallest version that holds n bytes at the level,
\* 0 standing for DataOverflowError
best_fit(n, level) ==
    IF Fits(n, level) THEN CHOOSE v \in Versions :
                               /\ n <= Capacity(v, level)
                               /\ \A w \in Versions : w < v => n > Capacity(w, level)
    ELSE 0

\* The data cells of a matrix are the library's business; the model keeps a
\* couple of fillings of them.  The three finder patterns are in every matrix.
MatrixFillings == {"dark", "checker"}

InFinder(n, r, c) ==
    \/ r < 7 /\ c < 7
    \/ r < 7 /\ c >= n - 7
    \/ r >= n - 7 /\ c < 7

FinderDark(n, r, c) ==
    LET rr == IF r >= n - 7 THEN r - (n - 7) ELSE r
        cc == IF c >= n - 7 THEN c - (n - 7) ELSE c
    IN \/ rr \in {0, 6} \/ cc \in {0, 6}
       \/ (rr \in 2..4 /\ cc \in 2..4)

\* qr.modules[r][c]
IsDark(m, r, c) ==
    IF InFinder(m.modules_count, r, c) THEN FinderDark(m.modules_count, r, c)
    ELSE CASE m.filling = "light" -> FALSE
           [] m.filling = "dark" -> TRUE
           [] OTHER -> (r + c) % 2 = 0

(***************************************************************************)
(* Images.  An image is its side in pixels and the paint operations made   *)
(* on it, in order; the colour of a pixel is that of the last operation    *)
(* that covers it.  Colours are RGB triples.                               *)
(***************************************************************************)
White == <<255, 255, 255>>

Black == <<0, 0, 0>>

\* get_module_drawer (qr_utils.py 67-99): the drawer class chosen for a
\* style, with the attributes the code sets on it
get_module_drawer(style, colour) ==
    IF ~validate_color(colour) THEN Raised("ValueError")
    ELSE IF Lower(style) = <<"d", "o", "t", "s">>
    THEN Returned([class |-> "CircleModuleDrawer", radius_ratio |-> 90, img |-> colour])
    ELSE Returned([class |-> CASE Lower(style) = <<"s", "q", "u", "a", "r", "e">> -> "SquareModuleDrawer"
                               [] Lower(style) = <<"r", "o", "u", "n", "d", "e", "d">> -> "RoundedModuleDrawer"
                               [] Lower(style) = <<"g", "a", "p", "p", "e", "d">> -> "GappedSquareModuleDrawer"
                               [] OTHER -> "SquareModuleDrawer",
                   radius_ratio |-> 0, img |-> colour])

\* the part of a box_size cell a drawer class paints, to the pixel grid
InDisc(dx, dy, size) ==
    (2 * dx + 1 - size) * (2 * dx + 1 - size) + (2 * dy + 1 - size) * (2 * dy + 1 - size)
        <= size * size

ModuleShape(class, dx, dy, box) ==
    CASE class = "CircleModuleDrawer" -> InDisc(dx, dy, box)
      [] class = "GappedSquareModuleDrawer" ->
            LET gap == box \div 10
            IN dx >= gap /\ dx < box - gap /\ dy >= gap /\ dy < box - gap
      [] class = "RoundedModuleDrawer" ->
            box < 3 \/ ~(dx \in {0, box - 1} /\ dy \in {0, box - 1})
      [] OTHER -> TRUE

\* StyledPilImage draws every dark cell with the drawer of its kind (the eye
\* drawer inside the finder patterns, the module drawer elsewhere)
ModulesCover(op, x, y) ==
    LET c == (x \div op.box_size) - op.border
        r == (y \div op.box_size) - op.border
        n == op.matrix.modules_count
    IN /\ c \in 0..(n - 1) /\ r \in 0..(n - 1)
       /\ IsDark(op.matrix, r, c)
       /\ \/ InFinder(n, r, c)
          \/ ModuleShape(op.module_drawer.class, x % op.box_size, y % op.box_size, op.box_size)

RectCover(op, x, y) == x >= op.x0 /\ x <= op.x1 /\ y >= op.y0 /\ y <= op.y1

\* Image.paste(logo, position, logo): the pixels of the logo that are not
\* fully transparent
PasteCover(op, x, y) ==
    /\ x >= op.x /\ x < op.x + op.size /\ y >= op.y /\ y < op.y + op.size
    /\ op.logo.opaque \/ InDisc(x - op.x, y - op.y, op.size)

Covers(op, x, y) ==
    CASE op.op = "new" -> TRUE
      [] op.op = "modules" -> ModulesCover(op, x, y)
      [] op.op = "rect" -> RectCover(op, x, y)
      [] op.op = "paste" -> PasteCover(op, x, y)

Paint(op) ==
    CASE op.op = "new" -> op.color
      [] op.op = "modules" -> op.front
      [] op.op = "rect" -> op.fill
      [] op.op = "paste" -> IF op.logo.opaque THEN op.logo.ink ELSE White

RECURSIVE PixelAfter(_, _, _, _)
PixelAfter(ops, k, x, y) ==
    IF Covers(ops[k], x, y) THEN Paint(ops[k]) ELSE PixelAfter(ops, k - 1, x, y)

\* the colour of pixel (x, y) of an image
Pixel(img, x, y) == PixelAfter(img.ops, Len(img.ops), x, y)

\* A plausible slip: the quiet zone is left out of the canvas.
make_image_no_border(m, box_size, border, module_drawer, fill_color, back_color, eye_colour) ==
    [side |-> m.modules_count * box_size,
     ops |-> << [op |-> "new", color |-> White],
                [op |-> "modules", matrix |-> m, box_size |-> box_size, border |-> border,
                 module_drawer |-> module_drawer, eye_drawer |-> eye_colour,
                 fill_color |-> fill_color, back_color |-> back_color,
                 front |-> Black] >>]

\* qr.make_image(image_factory=StyledPilImage, module_drawer, fill_color,
\* back_color, eye_drawer) (qr_utils.py 334-348).  StyledPilImage takes its
\* colours from its color_mask, which is left at SolidFillColorMask(): white
\* behind, black in front.
make_image(m, box_size, border, module_drawer, fill_color, back_color, eye_colour) ==
    [side |-> (m.modules_count + border * 2) * box_size,
     ops |-> << [op |-> "new", color |-> White],
                [op |-> "modules", matrix |-> m, box_size |-> box_size, border |-> border,
                 module_drawer |-> module_drawer, eye_drawer |-> eye_colour,
                 fill_color |-> fill_color, back_color |-> back_color,
                 front |-> Black] >>]

Rectangle(x0, y0, x1, y1, fill) ==
    [op |-> "rect", x0 |-> x0, y0 |-> y0, x1 |-> x1, y1 |-> y1, fill |-> fill]

\* A plausible slip: the rectangles end one pixel too far (x + eye_size
\* instead of x + eye_size - 1).
EyeRectangles_off_by_one(x, y, box_size, eye_colour, background_colour) ==
    LET eye_size == 7 * box_size
        inner_pad == box_size
        center_pad == 2 * box_size
    IN << Rectangle(x, y, x + eye_size, y + eye_size, eye_colour),
          Rectangle(x + inner_pad, y + inner_pad,
                    x + eye_size - inner_pad, y + eye_size - inner_pad, background_colour),
          Rectangle(x + center_pad, y + center_pad,
                    x + eye_size - center_pad, y + eye_size - center_pad, eye_colour) >>

\* the three draw.rectangle calls of one eye (qr_utils.py 365-383)
EyeRectangles(x, y, box_size, eye_colour, background_colour) ==
    LET eye_size == 7 * box_size
        inner_pad == box_size
        center_pad == 2 * box_size
    IN << Rectangle(x, y, x + eye_size - 1, y + eye_size - 1, eye_colour),
          Rectangle(x + inner_pad, y + inner_pad,
                    x + eye_size - inner_pad - 1, y + eye_size - inner_pad - 1,
                    background_colour),
          Rectangle(x + center_pad, y + center_pad,
                    x + eye_size - center_pad - 1, y + eye_size - center_pad - 1,
                    eye_colour) >>

\* eye_positions (qr_utils.py 350-363)
eye_positions(qr_width, qr_height, border_size, eye_size) ==
    << <<border_size, border_size>>,
       <<border_size, qr_height - border_size - eye_size>>,
       <<qr_width - border_size - eye_size, border_size>> >>

(***************************************************************************)
(* The logo (qr_utils.py 101-137, 385-436).  Paths are texts; the two      *)
(* bundled assets and the directory of the module are single symbols.      *)
(***************************************************************************)
AppDir == <<"<appdir>">>

BundledTestAsset == AppDir \o <<"/", "../test/test_output/Phonon_Favicon.png">>

BundledAppAsset == <<"/app/assets/images/phonon-favicon.png">>

IsRemote(path) == StartsWith(path, <<"h", "t", "t", "p", ":", "/", "/">>) \/ StartsWith(path, <<"h", "t", "t", "p", "s", ":", "/", "/">>)

possible_paths(logo_url) ==
    << logo_url,
       LStrip(logo_url, {"/"}),
       AppDir \o <<"/">> \o LStrip(logo_url, {"/"}),
       BundledTestAsset,
       BundledAppAsset >>

\* the places that resolve logo_url itself
OwnPaths(logo_url) == {possible_paths(logo_url)[i] : i \in 1..3}

\* what a file system can hold: local files only
LocalPaths(logo_url) ==
    {p \in {possible_paths(logo_url)[i] : i \in 1..5} : p # <<>> /\ ~IsRemote(p)}

UserInk == <<200, 30, 30>>

BrandInk == <<20, 20, 120>>

\* the image a path holds
FileImage(path, fsys) ==
    [source |-> path,
     ink |-> IF path \in {BundledTestAsset, BundledAppAsset} THEN BrandInk ELSE UserInk,
     opaque |-> fsys.opaque]

\* process_logo: the logo on its white disc; the two flags are not read.
\* A remote path is fetched with requests.get, a local one opened.
process_logo(logo_path, add_background, make_round, fsys) ==
    IF IsRemote(logo_path)
    THEN (IF fsys.responds /\ fsys.decodes
          THEN Returned(FileImage(logo_path, fsys)) ELSE Raised("RequestException"))
    ELSE IF logo_path \in fsys.present /\ fsys.decodes
    THEN Returned(FileImage(logo_path, fsys))
    ELSE Raised("UnidentifiedImageError")

\* the first of the possible paths that exists, <<>> when none does
FirstExisting(paths, fsys) ==
    IF \E i \in 1..Len(paths) : paths[i] \in fsys.present
    THEN paths[CHOOSE i \in 1..Len(paths) :
                   /\ paths[i] \in fsys.present
                   /\ \A j \in 1..(i - 1) : paths[j] \notin fsys.present]
    ELSE <<>>

\* the try block of the logo (qr_utils.py 388-434): the paste it makes, or
\* nothing when anything in it raises
LogoOps(image, config, fsys) ==
    LET logo_path == FirstExisting(possible_paths(config.logo_url), fsys)
        logo == process_logo(logo_path, config.logo_background, config.logo_round, fsys)
        fraction == IF config.logo_size # 0 THEN config.logo_size ELSE 15
        logo_size == (image.side * fraction) \div 100
    IN IF logo_path = <<>> THEN Returned(<<>>)              \* FileNotFoundError, caught
       ELSE IF ~logo.ok THEN Returned(<<>>)                 \* process_logo raised, caught
       ELSE IF logo_size = 0 THEN Returned(<<>>)            \* resize((0, 0)) raised, caught
       ELSE Returned(<< [op |-> "paste", x |-> (image.side - logo_size) \div 2,
                         y |-> (image.side - logo_size) \div 2,
                         size |-> logo_size, logo |-> logo.value] >>)

(***************************************************************************)
(* A synthesis call: the caller builds QRDesignOptions and calls           *)
(* generate_vcard_qr (qr_utils.py 301-447), taken step by step.            *)
(***************************************************************************)
MaxBox == 2
MaxBorder == 1
MaxFiles == 2

othersIdle ==
    <<phone, formatted, color, accepted, rgb, payloads, calls, heap, breakerVars>>

\* A plausible slip: the except clause logs the error and does not re-raise,
\* so the call returns None.
Fail_logged_only(kind) ==
    /\ pc' = "done"
    /\ error' = "None"

\* except Exception as e: ...; raise (qr_utils.py 445-447)
Fail(kind) ==
    /\ pc' = "failed"
    /\ error' = kind

\* QRDesignOptions(**design), before generate_vcard_qr is entered
BuildOptions ==
    /\ pc = "call"
    /\ LET built == QRDesignOptions(design)
       IN IF built.ok
          THEN style_config' = <<built.value>> /\ pc' = "encode" /\ UNCHANGED error
          ELSE Fail(built.error) /\ UNCHANGED style_config
    /\ UNCHANGED <<design, notes_more, vcard_content, qr, qr_image, files, ran, result,
                   vcard_data, now, othersIdle>>

\* vcard_content = generate_vcard_content(vcard_data)
EncodePayload ==
    /\ pc = "encode"
    /\ ran' = ran \cup {"encode"}
    /\ LET content == generate_vcard_content(vcard_data, now)
       IN IF content.ok
          THEN /\ vcard_content' = <<[text |-> content.value, more |-> notes_more]>>
               /\ pc' = "make" /\ UNCHANGED error
          ELSE Fail(content.error) /\ UNCHANGED vcard_content
    /\ UNCHANGED <<design, notes_more, style_config, qr, qr_image, files, result,
                   vcard_data, now, othersIdle>>

\* the bytes of the payload: the text is ASCII
ContentBytes(content) == Len(content.text) + content.more

\* error_correction=getattr(qrcode.constants, f"ERROR_CORRECT_{...}")
RequestedLevel(config) == config.error_correction

\* qr = qrcode.QRCode(version=None, ...); qr.add_data(...); qr.make(fit=True)
MakeMatrix ==
    /\ pc = "make"
    /\ ran' = ran \cup {"matrix"}
    /\ LET level == RequestedLevel(style_config[1])
           n == ContentBytes(vcard_content[1])
       IN IF level \notin valid_levels THEN Fail("AttributeError") /\ UNCHANGED qr
          ELSE IF best_fit(n, level) = 0 THEN Fail("DataOverflowError") /\ UNCHANGED qr
          ELSE /\ \E filling \in MatrixFillings :
                     qr' = <<[version |-> best_fit(n, level),
                              error_correction |-> level,
                              modules_count |-> 4 * best_fit(n, level) + 17,
                              data_bytes |-> n,
                              filling |-> filling]>>
               /\ pc' = "render" /\ UNCHANGED error
    /\ UNCHANGED <<design, notes_more, style_config, vcard_content, qr_image, files,
                   result, vcard_data, now, othersIdle>>

\* hex_to_rgb of the three colours, get_module_drawer, qr.make_image
Render ==
    /\ pc = "render"
    /\ ran' = ran \cup {"render"}
    /\ LET config == style_config[1]
           module_color == hex_to_rgb(config.module_color)
           eye_color == hex_to_rgb(config.eye_color)
           background_color == hex_to_rgb(config.background_color)
       IN IF ~module_color.ok \/ ~eye_color.ok \/ ~background_color.ok
          THEN Fail("ValueError") /\ UNCHANGED qr_image
          ELSE /\ qr_image' =
                     <<make_image(qr[1], config.box_size, config.border,
                                  get_module_drawer(config.pattern_style,
                                                    module_color.value).value,
                                  module_color.value, background_color.value,
                                  eye_color.value)>>
               /\ pc' = "eyes" /\ UNCHANGED error
    /\ UNCHANGED <<design, notes_more, style_config, vcard_content, qr, files, result,
                   vcard_data, now, othersIdle>>

\* the eye patterns drawn over the image (qr_utils.py 350-383)
DrawEyes ==
    /\ pc = "eyes"
    /\ ran' = ran \cup {"eyes"}
    /\ LET config == style_config[1]
           img == qr_image[1]
           border_size == config.border * config.box_size
           eye_size == 7 * config.box_size
           at == eye_positions(img.side, img.side, border_size, eye_size)
           eye_color == hex_to_rgb(config.eye_color).value
           background_color == hex_to_rgb(config.background_color).value
           drawn == EyeRectangles(at[1][1], at[1][2], config.box_size,
                                  eye_color, background_color)
                      \o EyeRectangles(at[2][1], at[2][2], config.box_size,
                                       eye_color, background_color)
                      \o EyeRectangles(at[3][1], at[3][2], config.box_size,
                                       eye_color, background_color)
       IN qr_image' = <<[img EXCEPT !.ops = img.ops \o drawn]>>
    /\ pc' = "logo"
    /\ UNCHANGED <<design, notes_more, style_config, vcard_content, qr, files, result,
                   error, vcard_data, now, othersIdle>>

\* what the environment may hold when the logo is looked for
FileSystems(logo_url) ==
    { [present |-> ps, decodes |-> k.decodes, opaque |-> k.opaque, responds |-> FALSE] :
        ps \in {x \in SUBSET LocalPaths(logo_url) : Cardinality(x) <= MaxFiles},
        k \in { [decodes |-> TRUE, opaque |-> TRUE], [decodes |-> TRUE, opaque |-> FALSE],
                [decodes |-> FALSE, opaque |-> TRUE] } }

\* A plausible slip: the logo block runs whether or not logo_url is set.
WantsLogo_always(config) == TRUE

\* if style_config.logo_url:
WantsLogo(config) == config.logo_url # <<>>

\* if style_config.logo_url: ... else: ... (qr_utils.py 385-436)
CompositeLogo ==
    /\ pc = "logo"
    /\ ran' = ran \cup {"logo"}
    /\ LET config == style_config[1]
           img == qr_image[1]
       IN IF WantsLogo(config)
          THEN \E fs \in FileSystems(config.logo_url) :
                   /\ files' = <<fs>>
                   /\ LET pasted == LogoOps(img, config, fs)
                      IN IF pasted.ok
                         THEN /\ qr_image' = <<[img EXCEPT !.ops = img.ops \o pasted.value]>>
                              /\ pc' = "save" /\ UNCHANGED error
                         ELSE Fail(pasted.error) /\ UNCHANGED qr_image
          ELSE /\ pc' = "save"
               /\ UNCHANGED <<qr_image, files, error>>
    /\ UNCHANGED <<design, notes_more, style_config, vcard_content, qr, result,
                   vcard_data, now, othersIdle>>

\* qr_image.save(img_byte_arr, format='PNG'); return the bytes
Save ==
    /\ pc = "save"
    /\ ran' = ran \cup {"save"}
    /\ result' = <<qr_image[1]>>
    /\ pc' = "done"
    /\ UNCHANGED <<design, notes_more, style_config, vcard_content, qr, qr_image, files,
                   error, vcard_data, now, othersIdle>>

Next == BuildOptions \/ EncodePayload \/ MakeMatrix \/ Render \/ DrawEyes
            \/ CompositeLogo \/ Save

(***************************************************************************)
(* Inputs of a synthesis call: the defaults, and around a small design     *)
(* the payload sizes and levels, the geometry and styles, the logo         *)
(* settings, and the values validation rejects.                            *)
(***************************************************************************)
SmallDesign == [DefaultDesign EXCEPT !.box_size = 1, !.border = 0]

With(d, f, v) == [d EXCEPT ![f] = v]

Contact ==
    [first_name |-> <<"J", "o", "h", "n">>, last_name |-> <<"D", "o", "e">>,
     email |-> <<"j", "o", "h", "n", "@", "x", ".", "c", "o", "m">>, mobile_number |-> <<"9", "8", "7", "6", "5", "4", "3", "2", "1", "0">>,
     notes |-> <<"h", "i">>]

Contacts == {Contact, With(Contact, "mobile_number", <<"1", "2", "3">>)}

NoteLengths == {0, 1200, 1600, 2300, 2700, 3000}

Palettes ==
    { [module_color |-> <<"#", "0", "f", "5", "0", "b", "5">>, eye_color |-> <<"#", "f", "f", "4", "d", "2", "6">>, background_color |-> <<"#", "F", "F", "F", "F", "F", "F">>],
      [module_color |-> <<"#", "0", "0", "0", "0", "0", "0">>, eye_color |-> <<"#", "0", "0", "0", "0", "0", "0">>, background_color |-> <<"#", "F", "F", "E", "E", "0", "0">>],
      [module_color |-> <<"#", "f", "f", "4", "d", "2", "6">>, eye_color |-> <<"#", "f", "f", "f", "f", "f", "f">>, background_color |-> <<"#", "0", "f", "5", "0", "b", "5">>] }

StyleInputs ==
    valid_patterns \cup {<<"D", "o", "t", "s">>, <<"c", "i", "r", "c", "l", "e">>, <<"h", "e", "x", "a", "g", "o", "n">>}

LogoUrls == {<<"/", "l", "o", "g", "o", "s", "/", "a", "c", "m", "e", ".", "p", "n", "g">>, <<"a", "c", "m", "e", ".", "p", "n", "g">>, <<"h", "t", "t", "p", "s", ":", "/", "/", "c", "d", "n", ".", "i", "o", "/", "a", "c", "m", "e", ".", "p", "n", "g">>}

CapacityInputs ==
    { [design |-> With(SmallDesign, "error_correction", level), contact |-> c, more |-> n] :
        level \in valid_levels, c \in Contacts, n \in NoteLengths }

GeometryInputs ==
    { [design |-> [SmallDesign EXCEPT !.box_size = b, !.border = q, !.pattern_style = st,
                                      !.module_color = pal.module_color,
                                      !.eye_color = pal.eye_color,
                                      !.background_color = pal.background_color],
       contact |-> Contact, more |-> 0] :
        b \in 1..MaxBox, q \in 0..MaxBorder, st \in StyleInputs, pal \in Palettes }

\* the logo settings at the ends of the geometry, and the two flags off
LogoInputs ==
    { [design |-> [SmallDesign EXCEPT !.box_size = b, !.border = q, !.logo_url = u,
                                      !.logo_size = z],
       contact |-> Contact, more |-> 0] :
        b \in {1, MaxBox}, q \in {0, MaxBorder}, u \in LogoUrls, z \in {0, 1, 23, 90} }
    \cup
    { [design |-> [SmallDesign EXCEPT !.logo_url = u, !.logo_background = FALSE,
                                      !.logo_round = FALSE],
       contact |-> Contact, more |-> 0] : u \in LogoUrls }

RejectedInputs ==
    { [design |-> d, contact |-> Contact, more |-> 0] :
        d \in { With(SmallDesign, "box_size", 0), With(SmallDesign, "border", -1),
                With(SmallDesign, "module_color", <<"r", "e", "d">>),
                With(SmallDesign, "eye_color", <<"f", "f", "4", "d", "2", "6">>),
                With(SmallDesign, "background_color", <<"#", "F", "F", "F">>),
                With(SmallDesign, "error_correction", "X"),
                With(SmallDesign, "logo_size", 100) } }

CallInputs ==
    CapacityInputs \cup GeometryInputs \cup LogoInputs \cup RejectedInputs
        \cup {[design |-> DefaultDesign, contact |-> Contact, more |-> 0]}

Init ==
    /\ \E in \in CallInputs :
          /\ design = in.design
          /\ vcard_data = in.contact
          /\ notes_more = in.more
    /\ pc = "call"
    /\ now = 0
    /\ style_config = <<>> /\ vcard_content = <<>> /\ qr = <<>> /\ qr_image = <<>>
    /\ files = <<>> /\ ran = {} /\ error = "None" /\ result = <<>>
    /\ PhoneIdle /\ ColorIdle /\ payloads = <<>> /\ PairIdle /\ BreakerIdle

Spec == Init /\ [][Next]_vars

(***************************************************************************)
(* Concurrent calls of generate_vcard_qr.  Each call has its own locals;   *)
(* the drawers and images it creates are objects on a heap, and a drawer   *)
(* draws on the image it was last bound to (StyledPilImage binds the       *)
(* drawers it is given when it is constructed).  The calls take their      *)
(* steps in any order.                                                     *)
(***************************************************************************)
MaxCallers == 2

Callers == 1..MaxCallers

\* A plausible slip: the drawers are built once at module level and every
\* call gets the same object.
NewDrawer_module_level(h) == 1

\* CircleModuleDrawer(), SquareModuleDrawer(), ..., CustomEyeDrawer(eye_color):
\* each constructor call gives a new object
NewDrawer(h) == Len(h.drawers) + 1

PutDrawer(h, id, obj) ==
    [h EXCEPT !.drawers = IF id > Len(h.drawers) THEN Append(h.drawers, obj)
                          ELSE [h.drawers EXCEPT ![id] = obj]]

\* the locals of a call that has just been entered
NewCall(in) ==
    [pc |-> "call", design |-> in.design, data |-> in.contact, more |-> in.more,
     config |-> <<>>, content |-> <<>>, matrix |-> <<>>, module_drawer |-> 0,
     eye_drawer |-> 0, image |-> 0, todo |-> <<>>, error |-> "None", result |-> <<>>]

Failed(c, kind) == [c EXCEPT !.pc = "failed", !.error = kind]

singleVars == <<phoneVars, colorVars, encoderVars, callVars, breakerVars>>

\* QRDesignOptions(**design) in the caller
CallBuildOptions(i) ==
    /\ calls[i].pc = "call"
    /\ LET c == calls[i]
           built == QRDesignOptions(c.design)
       IN calls' = [calls EXCEPT ![i] =
                       IF built.ok THEN [c EXCEPT !.pc = "encode", !.config = <<built.value>>]
                       ELSE Failed(c, built.error)]
    /\ UNCHANGED <<heap, singleVars>>

\* vcard_content = generate_vcard_content(vcard_data)
CallEncode(i) ==
    /\ calls[i].pc = "encode"
    /\ LET c == calls[i]
           content == generate_vcard_content(c.data, now)
       IN calls' = [calls EXCEPT ![i] =
                       IF content.ok
                       THEN [c EXCEPT !.pc = "make",
                                      !.content = <<[text |-> content.value, more |-> c.more]>>]
                       ELSE Failed(c, content.error)]
    /\ UNCHANGED <<heap, singleVars>>

\* qr = qrcode.QRCode(...); qr.add_data(vcard_content); qr.make(fit=True)
CallMakeMatrix(i) ==
    /\ calls[i].pc = "make"
    /\ LET c == calls[i]
           level == RequestedLevel(c.config[1])
           n == ContentBytes(c.content[1])
       IN calls' = [calls EXCEPT ![i] =
                       IF best_fit(n, level) = 0 THEN Failed(c, "DataOverflowError")
                       ELSE [c EXCEPT !.pc = "drawer",
                                      !.matrix = <<[version |-> best_fit(n, level),
                                                    error_correction |-> level,
                                                    modules_count |-> 4 * best_fit(n, level) + 17,
                                                    data_bytes |-> n,
                                                    filling |-> "checker"]>>]]
    /\ UNCHANGED <<heap, singleVars>>

\* module_drawer = get_module_drawer(style_config.pattern_style, module_color)
CallGetDrawer(i) ==
    /\ calls[i].pc = "drawer"
    /\ LET c == calls[i]
           module_color == hex_to_rgb(c.config[1].module_color)
           id == NewDrawer(heap)
       IN IF ~module_color.ok
          THEN calls' = [calls EXCEPT ![i] = Failed(c, "ValueError")] /\ UNCHANGED heap
          ELSE /\ heap' = PutDrawer(heap, id,
                              [drawer |-> get_module_drawer(c.config[1].pattern_style,
                                                            module_color.value).value,
                               img |-> 0])
               /\ calls' = [calls EXCEPT ![i] = [c EXCEPT !.pc = "image", !.module_drawer = id]]
    /\ UNCHANGED singleVars

\* qr.make_image(image_factory=StyledPilImage, module_drawer=...,
\* eye_drawer=CustomEyeDrawer(eye_color)): the eye drawer and the image are
\* created and both drawers are bound to the image
CallNewImage(i) ==
    /\ calls[i].pc = "image"
    /\ LET c == calls[i]
           config == c.config[1]
           eye == NewDrawer(heap)
           made == make_image(c.matrix[1], config.box_size, config.border,
                              heap.drawers[c.module_drawer].drawer,
                              hex_to_rgb(config.module_color).value,
                              hex_to_rgb(config.background_color).value,
                              hex_to_rgb(config.eye_color).value)
           canvas == Len(heap.canvases) + 1
           withEye == PutDrawer(heap, eye, [drawer |-> [class |-> "CustomEyeDrawer",
                                                       radius_ratio |-> 0,
                                                       img |-> hex_to_rgb(config.eye_color).value],
                                            img |-> canvas])
       IN /\ heap' = [withEye EXCEPT
                         !.drawers[c.module_drawer].img = canvas,
                         !.canvases = Append(heap.canvases,
                                             [side |-> made.side, ops |-> <<made.ops[1]>>])]
          /\ calls' = [calls EXCEPT ![i] =
                          [c EXCEPT !.pc = "draw", !.eye_drawer = eye, !.image = canvas,
                                    !.todo = <<made.ops[2]>>]]
    /\ UNCHANGED singleVars

\* the cells are drawn, each by its drawer on the image the drawer is bound to
CallDrawModules(i) ==
    /\ calls[i].pc = "draw"
    /\ LET c == calls[i]
           targets == {heap.drawers[c.module_drawer].img, heap.drawers[c.eye_drawer].img}
       IN /\ heap' = [heap EXCEPT !.canvases =
                         [k \in 1..Len(heap.canvases) |->
                             IF k \in targets
                             THEN [heap.canvases[k] EXCEPT !.ops = @ \o c.todo]
                             ELSE heap.canvases[k]]]
          /\ calls' = [calls EXCEPT ![i] = [c EXCEPT !.pc = "eyes", !.todo = <<>>]]
    /\ UNCHANGED singleVars

\* the nine rectangles of the three eyes, as draw.rectangle makes them
DrawnEyes(side, config) ==
    LET at == eye_positions(side, side, config.border * config.box_size,
                            7 * config.box_size)
        eye_color == hex_to_rgb(config.eye_color).value
        background_color == hex_to_rgb(config.background_color).value
    IN EyeRectangles(at[1][1], at[1][2], config.box_size, eye_color, background_color)
         \o EyeRectangles(at[2][1], at[2][2], config.box_size, eye_color, background_color)
         \o EyeRectangles(at[3][1], at[3][2], config.box_size, eye_color, background_color)

\* draw = ImageDraw.Draw(qr_image); the eye rectangles
CallDrawEyes(i) ==
    /\ calls[i].pc = "eyes"
    /\ LET c == calls[i]
       IN /\ heap' = [heap EXCEPT !.canvases[c.image].ops =
                         @ \o DrawnEyes(heap.canvases[c.image].side, c.config[1])]
          /\ calls' = [calls EXCEPT ![i] = [c EXCEPT !.pc = "save"]]
    /\ UNCHANGED singleVars

\* qr_image.save(img_byte_arr, format='PNG'); return the bytes
CallSave(i) ==
    /\ calls[i].pc = "save"
    /\ calls' = [calls EXCEPT ![i] = [calls[i] EXCEPT !.pc = "done",
                                                      !.result = <<heap.canvases[calls[i].image]>>]]
    /\ UNCHANGED <<heap, singleVars>>

NextPair ==
    \E i \in Callers :
        \/ CallBuildOptions(i) \/ CallEncode(i) \/ CallMakeMatrix(i) \/ CallGetDrawer(i)
        \/ CallNewImage(i) \/ CallDrawModules(i) \/ CallDrawEyes(i) \/ CallSave(i)

\* what the concurrent callers ask for: logo-less calls of several styles
\* and palettes, one the validation rejects and one beyond the capacity of
\* its level
PairInputs ==
    << [design |-> SmallDesign, contact |-> Contact, more |-> 0],
      [design |-> [SmallDesign EXCEPT !.pattern_style = <<"s", "q", "u", "a", "r", "e">>,
                                      !.module_color = <<"#", "0", "0", "0", "0", "0", "0">>,
                                      !.eye_color = <<"#", "0", "0", "0", "0", "0", "0">>,
                                      !.box_size = MaxBox, !.border = MaxBorder],
       contact |-> Contact, more |-> 0],
      [design |-> With(SmallDesign, "module_color", <<"r", "e", "d">>), contact |-> Contact, more |-> 0],
      [design |-> With(SmallDesign, "error_correction", "H"), contact |-> Contact,
       more |-> 1600] >>

\* the callers are interchangeable, so the inputs are handed out in order
InitPair ==
    /\ \E pick \in [Callers -> 1..Len(PairInputs)] :
          /\ \A i, j \in Callers : i <= j => pick[i] <= pick[j]
          /\ calls = [i \in Callers |-> NewCall(PairInputs[pick[i]])]
    /\ heap = [drawers |-> <<>>, canvases |-> <<>>]
    /\ PhoneIdle /\ ColorIdle /\ EncoderIdle /\ CallIdle /\ BreakerIdle

SpecPair == InitPair /\ [][NextPair]_vars

(***************************************************************************)
(* The gateway's circuit breaker (api-gateway/circuit_breaker.py).  One    *)
(* CircuitBreaker object serves every service name.  call_service is a     *)
(* coroutine: it runs to its await, other calls run while the wrapped      *)
(* function is awaited, and it runs on when the function returns or        *)
(* raises.  The breaker is built with small thresholds.                    *)
(***************************************************************************)
failure_threshold == 2

recovery_timeout == 2

MaxTime == 4
MaxPending == 2

ServiceNames == {"qr-service", "vcard-service"}

\* the CircuitBreaker object as a value
Breaker ==
    [services |-> services, failures |-> failures, last_failure_time |-> last_failure_time]

\* self.services.get(service_name, CircuitState.CLOSED)
get_service_state(b, service_name) ==
    IF service_name \in DOMAIN b.services THEN b.services[service_name] ELSE "CLOSED"

\* _set_service_state (84-90)
set_service_state(b, service_name, state) ==
    LET put == [b EXCEPT !.services = [n \in DOMAIN b.services \cup {service_name} |->
                                          IF n = service_name THEN state ELSE b.services[n]]]
    IN IF state = "CLOSED"
       THEN [put EXCEPT !.failures = 0, !.last_failure_time = <<>>]
       ELSE put

\* _handle_failure (59-74), at time t
handle_failure(b, service_name, t) ==
    LET current_state == get_service_state(b, service_name)
    IN IF current_state = "CLOSED"
       THEN LET counted == [b EXCEPT !.failures = @ + 1, !.last_failure_time = <<t>>]
            IN IF counted.failures >= failure_threshold
               THEN set_service_state(counted, service_name, "OPEN")
               ELSE counted
       ELSE IF current_state = "HALF_OPEN"
       THEN [set_service_state(b, service_name, "OPEN") EXCEPT !.last_failure_time = <<t>>]
       ELSE b

\* _should_attempt_recovery (76-82), at time t
should_attempt_recovery(b, service_name, t) ==
    IF b.last_failure_time = <<>> THEN TRUE
    ELSE t - b.last_failure_time[1] >= recovery_timeout

\* the object after a step
Becomes(b) ==
    /\ services' = b.services
    /\ failures' = b.failures
    /\ last_failure_time' = b.last_failure_time

Step(kind, service_name, current_state) ==
    [kind |-> kind, service |-> service_name, current_state |-> current_state]

RemoveAt(q, k) == [i \in 1..(Len(q) - 1) |-> IF i < k THEN q[i] ELSE q[i + 1]]

otherVars == <<phoneVars, colorVars, encoderVars, callVars, pairVars>>

\* call_service up to its await (41-50): the call is refused while the
\* service is OPEN and recovery is not due; otherwise the wrapped function
\* is started, an OPEN service having been set HALF_OPEN
CallService(service_name) ==
    /\ Len(pending) < MaxPending
    /\ LET current_state == get_service_state(Breaker, service_name)
       IN IF current_state = "OPEN"
               /\ ~should_attempt_recovery(Breaker, service_name, clock)
          THEN /\ last' = Step("refused", service_name, current_state)
               /\ UNCHANGED <<services, failures, last_failure_time, pending>>
          ELSE /\ Becomes(IF current_state = "OPEN"
                          THEN set_service_state(Breaker, service_name, "HALF_OPEN")
                          ELSE Breaker)
               /\ pending' = Append(pending, [service |-> service_name,
                                              current_state |-> current_state])
               /\ last' = Step("invoked", service_name, current_state)
    /\ UNCHANGED <<clock, own_failures, last_failed, otherVars>>

\* the wrapped function returns (50-53)
FuncReturns(k) ==
    /\ k \in 1..Len(pending)
    /\ LET call == pending[k]
           closes == call.current_state = "HALF_OPEN"
       IN /\ Becomes(IF closes THEN set_service_state(Breaker, call.service, "CLOSED")
                     ELSE Breaker)
          /\ own_failures' = IF closes THEN [own_failures EXCEPT ![call.service] = 0]
                             ELSE own_failures
          /\ last' = Step("returned", call.service, call.current_state)
    /\ pending' = RemoveAt(pending, k)
    /\ UNCHANGED <<clock, last_failed, otherVars>>

\* the wrapped function raises (55-57)
FuncRaises(k) ==
    /\ k \in 1..Len(pending)
    /\ LET call == pending[k]
       IN /\ Becomes(handle_failure(Breaker, call.service, clock))
          /\ own_failures' = [own_failures EXCEPT ![call.service] = @ + 1]
          /\ last_failed' = [last_failed EXCEPT ![call.service] = <<clock>>]
          /\ last' = Step("raised", call.service, call.current_state)
    /\ pending' = RemoveAt(pending, k)
    /\ UNCHANGED <<clock, otherVars>>

\* a second passes
PassTime ==
    /\ clock < MaxTime
    /\ clock' = clock + 1
    /\ last' = Step("time", "", "")
    /\ UNCHANGED <<services, failures, last_failure_time, pending, own_failures,
                   last_failed, otherVars>>

NextBreaker ==
    \/ \E service_name \in ServiceNames : CallService(service_name)
    \/ \E k \in 1..MaxPending : FuncReturns(k)
    \/ \E k \in 1..MaxPending : FuncRaises(k)
    \/ PassTime

\* circuit_breaker = CircuitBreaker(...)
InitBreaker ==
    /\ services = <<>> /\ failures = 0 /\ last_failure_time = <<>>
    /\ clock = 0 /\ pending = <<>>
    /\ own_failures = [n \in ServiceNames |-> 0]
    /\ last_failed = [n \in ServiceNames |-> <<>>]
    /\ last = Step("none", "", "")
    /\ PhoneIdle /\ ColorIdle /\ EncoderIdle /\ CallIdle /\ PairIdle

SpecBreaker == InitBreaker /\ [][NextBreaker]_vars

(***************************************************************************)
(* Claims about format_phone_number, checked under SpecPhone               *)
(***************************************************************************)
\* The contract's own account of the digits: all non-digits removed, one
\* leading 0 removed, 91 put in front of exactly 10 digits not starting 91.
RECURSIVE OnlyDigits(_)
OnlyDigits(s) ==
    IF s = <<>> THEN <<>>
    ELSE IF Head(s) \in Digits THEN <<Head(s)>> \o OnlyDigits(Tail(s))
    ELSE OnlyDigits(Tail(s))

ContractDigits(raw) ==
    LET d == OnlyDigits(raw)
        n == IF d # <<>> /\ d[1] = "0" THEN SubSeq(d, 2, Len(d)) ELSE d
    IN IF Len(n) = 10 /\ ~(n[1] = "9" /\ n[2] = "1") THEN <<"9", "1">> \o n ELSE n

FailsIffCountOutside(raw, r) ==
    /\ ~r.ok <=> Len(ContractDigits(raw)) \notin 11..15
    /\ r.ok => OnlyDigits(r.value) = ContractDigits(raw)

\* C7 (as stated): normalize fails if and only if the digit count, after
\* stripping non-digits, one leading 0 and default prefixing, is outside
\* 11..15; otherwise it returns those digits.  For every input.
C7_Original == formatted # <<>> => FailsIffCountOutside(phone, formatted[1])

\* C7 (amended): the same for every non-empty input; the empty input is
\* returned as the empty string without an error.
C7_FailsIffOutsideRange ==
    formatted # <<>> =>
        IF phone = <<>> THEN formatted[1] = Returned(<<>>)
        ELSE FailsIffCountOutside(phone, formatted[1])

\* C7 witness: a trunk 0 was removed and 91 put in front of the 10 digits left.
C7_Witness ==
    /\ formatted # <<>> /\ formatted[1].ok
    /\ phone # <<>> /\ phone[1] = "0"
    /\ Len(OnlyDigits(phone)) = 11
    /\ Len(formatted[1].value) = 13

PlusAndDigits(v) ==
    /\ v # <<>> /\ v[1] = "+"
    /\ Len(v) - 1 \in 11..15
    /\ \A i \in 2..Len(v) : v[i] \in Digits

\* C8 (as stated): for every input string normalize either raises or returns
\* '+' followed only by 11 to 15 digits.
C8_Original == formatted # <<>> => (~formatted[1].ok \/ PlusAndDigits(formatted[1].value))

\* C8 (amended): for every non-empty input string normalize either raises or
\* returns '+' followed only by 11 to 15 digits.
C8_PlusPrefixed ==
    (formatted # <<>> /\ phone # <<>>) =>
        (~formatted[1].ok \/ PlusAndDigits(formatted[1].value))

\* C8 witness: an input without '+' came back with one.
C8_Witness ==
    /\ formatted # <<>> /\ formatted[1].ok
    /\ phone # <<>> /\ phone[1] # "+"
    /\ formatted[1].value[1] = "+"

(***************************************************************************)
(* Claims about colour options, checked under SpecColor                    *)
(***************************************************************************)
\* ^#?[0-9A-Fa-f]{6}$ and ^#[0-9A-Fa-f]{6}$ as re.match reads them
DropFinalNewline(v) ==
    IF v # <<>> /\ v[Len(v)] = "\n" THEN SubSeq(v, 1, Len(v) - 1) ELSE v

SixHex(t) == Len(t) = 6 /\ \A i \in 1..6 : t[i] \in HexDigits

MatchesOptionalHash(v) ==
    \E t \in {v, DropFinalNewline(v)} :
        SixHex(t) \/ (t # <<>> /\ t[1] = "#" /\ SixHex(Tail(t)))

MatchesHash(v) ==
    \E t \in {v, DropFinalNewline(v)} : t # <<>> /\ t[1] = "#" /\ SixHex(Tail(t))

ConvertsToRGB ==
    rgb # <<>> => /\ rgb[1].ok
                  /\ Len(rgb[1].value) = 3
                  /\ \A k \in 1..3 : rgb[1].value[k] \in 0..255

\* C10 (as stated): a colour is accepted if and only if it matches
\* ^#?[0-9A-Fa-f]{6}$, and every accepted colour converts to an RGB triple
\* with each component in 0..255.
C10_Original ==
    /\ accepted # <<>> => (accepted[1].ok <=> MatchesOptionalHash(color))
    /\ ConvertsToRGB

\* C10 (amended): a colour is accepted if and only if it matches
\* ^#[0-9A-Fa-f]{6}$ (the leading '#' is required), and every accepted
\* colour converts to an RGB triple with each component in 0..255.
C10_AcceptedIffHashHex ==
    /\ accepted # <<>> => (accepted[1].ok <=> MatchesHash(color))
    /\ ConvertsToRGB

\* C10 witness: an accepted colour was converted and its first component is
\* neither 0 nor 255.
C10_Witness ==
    /\ accepted # <<>> /\ accepted[1].ok
    /\ rgb # <<>> /\ rgb[1].ok /\ rgb[1].value[1] \notin {0, 255}

(***************************************************************************)
(* Claims about generate_vcard_content, checked under SpecEncode           *)
(***************************************************************************)
\* C6 (as stated): two calls of encode with an identical record, made at any
\* two points in time, return byte-identical payload text.
C6_Deterministic ==
    \A i, j \in 1..Len(payloads) : payloads[i] = payloads[j]

(***************************************************************************)
(* Claims about a synthesis call, checked under Spec                       *)
(***************************************************************************)
Finished == pc \in {"done", "failed"}

\* the ladder of levels, strongest first, from the level asked for
Ladder == <<"H", "Q", "M", "L">>

Rung(level) == CHOOSE i \in 1..4 : Ladder[i] = level

FitsBelow(n, level) == \E i \in Rung(level)..4 : Fits(n, Ladder[i])

FirstFitting(n, level) ==
    Ladder[CHOOSE i \in Rung(level)..4 :
               /\ Fits(n, Ladder[i])
               /\ \A j \in Rung(level)..(i - 1) : ~Fits(n, Ladder[j])]

\* C1 (as stated): matrix encoding walks the ladder H, Q, M, L from the
\* requested level and succeeds with used_ecc equal to the first level at
\* which the payload fits some version 1..40.
C1_LadderFallback ==
    (Finished /\ vcard_content # <<>>
       /\ FitsBelow(ContentBytes(vcard_content[1]), design.error_correction))
    => /\ qr # <<>>
       /\ error # "DataOverflowError"
       /\ qr[1].error_correction
            = FirstFitting(ContentBytes(vcard_content[1]), design.error_correction)

\* C2 (as stated): matrix encoding fails with the capacity error if and only
\* if the payload does not fit at level L in version 40; when it fails no
\* image is produced, and when it succeeds the whole payload is encoded.
C2_FailsIffBeyondL ==
    (Finished /\ vcard_content # <<>>) =>
        /\ error = "DataOverflowError"
             <=> ContentBytes(vcard_content[1]) > Capacity(40, "L")
        /\ error = "DataOverflowError" => (qr_image = <<>> /\ result = <<>>)
        /\ qr # <<>> => qr[1].data_bytes = ContentBytes(vcard_content[1])

HasPaste(img) == \E i \in 1..Len(img.ops) : img.ops[i].op = "paste"

\* the logo logo_url names could not be found, decoded or sized
OwnLogoFailed ==
    /\ files # <<>>
    /\ \/ OwnPaths(design.logo_url) \cap files[1].present = {}
       \/ ~files[1].decodes
       \/ (qr_image[1].side * (IF design.logo_size # 0 THEN design.logo_size ELSE 15))
            \div 100 = 0

\* C3 (as stated): when fetching, decoding or compositing the logo of
\* logo_url fails, synthesize still succeeds and returns the image it returns
\* with logo_url unset.
C3_LogoFailureGivesPlainImage ==
    (pc = "done" /\ design.logo_url # <<>> /\ OwnLogoFailed)
    => /\ error = "None"
       /\ ~HasPaste(result[1])

\* the three finder zones, in modules from the image's corner
ZoneCorners(n, border) ==
    { <<border, border>>, <<border + n - 7, border>>, <<border, border + n - 7>> }

\* the colour the nested pattern has at module (mx, my) of a zone
NestedColour(mx, my, eye, back) ==
    IF mx \in {0, 6} \/ my \in {0, 6} THEN eye
    ELSE IF mx \in {1, 5} \/ my \in {1, 5} THEN back
    ELSE eye

ZoneNested(img, zone, box, eye, back) ==
    \A dx \in 0..(7 * box - 1), dy \in 0..(7 * box - 1) :
        Pixel(img, zone[1] * box + dx, zone[2] * box + dy)
            = NestedColour(dx \div box, dy \div box, eye, back)

ZonesNested(img) ==
    \A zone \in ZoneCorners(qr[1].modules_count, design.border) :
        ZoneNested(img, zone, design.box_size,
                   hex_to_rgb(design.eye_color).value,
                   hex_to_rgb(design.background_color).value)

\* a pasted logo's square meets a finder zone
PasteMeetsZone(img) ==
    \E i \in 1..Len(img.ops), zone \in ZoneCorners(qr[1].modules_count, design.border) :
        /\ img.ops[i].op = "paste"
        /\ img.ops[i].x < (zone[1] + 7) * design.box_size
        /\ img.ops[i].x + img.ops[i].size > zone[1] * design.box_size
        /\ img.ops[i].y < (zone[2] + 7) * design.box_size
        /\ img.ops[i].y + img.ops[i].size > zone[2] * design.box_size

\* C4 (as stated): in the image synthesize returns, for every payload and
\* every valid DesignOptions, logo settings included, each finder zone shows
\* exactly the nested eye_color / background_color / eye_color blocks.
C4_Original == pc = "done" => ZonesNested(result[1])

\* C4 (amended): the finder zones show exactly the nested blocks in the image
\* as drawn before the logo, and in the returned image whenever no logo was
\* pasted or the pasted logo's square does not meet a finder zone.
C4_FinderZonesNested ==
    /\ pc = "logo" => ZonesNested(qr_image[1])
    /\ pc = "done" => (~PasteMeetsZone(result[1]) => ZonesNested(result[1]))

\* C4 witness: a returned image with a pasted logo clear of the zones, over a
\* matrix whose data cells are all dark, with a border and 2-pixel modules.
C4_Witness ==
    /\ pc = "done" /\ HasPaste(result[1]) /\ ~PasteMeetsZone(result[1])
    /\ qr[1].filling = "dark" /\ design.border > 0 /\ design.box_size > 1

\* C5: the rendered image is square with side (4*version + 17 + 2*border) *
\* box_size for a version in 1..40, and logo compositing keeps that size.
C5_ImageSide ==
    /\ qr_image # <<>> =>
         /\ qr[1].version \in 1..40
         /\ qr_image[1].side
              = (4 * qr[1].version + 17 + 2 * design.border) * design.box_size
    /\ result # <<>> =>
         result[1].side = (4 * qr[1].version + 17 + 2 * design.border) * design.box_size

\* C5 witness: a returned image with a logo pasted on it, a border and
\* 2-pixel modules.
C5_Witness ==
    /\ pc = "done" /\ HasPaste(result[1])
    /\ design.border > 0 /\ design.box_size > 1

\* an option the validation of colour format, pattern style, level or
\* box_size does not admit
OptionRejected(d) ==
    \/ \E f \in ColorFields : ~MatchesHash(d[f])
    \/ Lower(d.pattern_style) \notin valid_patterns
    \/ d.error_correction \notin valid_levels
    \/ d.box_size <= 0

\* C9: validation of the options completes before any payload encoding,
\* matrix construction or rendering: with an invalid option the call ends in
\* a ValidationError and none of those steps has run, and no step runs
\* before the options object exists.
C9_ValidationFirst ==
    /\ (OptionRejected(design) /\ pc # "call")
         => (pc = "failed" /\ error = "ValidationError" /\ ran = {})
    /\ ran # {} => style_config # <<>>

\* C9 witness: a call with module_color "red" has ended in ValidationError.
C9_Witness ==
    /\ pc = "failed" /\ error = "ValidationError"
    /\ design.module_color = <<"r", "e", "d">>

(***************************************************************************)
(* Claims about the payload's lines, checked under SpecEncode.  A payload  *)
(* is read back the way a contact-card parser reads it: split at CRLF,     *)
(* each line a property name (with parameters), ':' and a value, the value *)
(* split at ';' into components.                                           *)
(***************************************************************************)
BreakAt(s, i) == s[i] = "\r" /\ s[i + 1] = "\n"

RECURSIVE LinesFrom(_, _)
LinesFrom(s, start) ==
    IF \E i \in start..(Len(s) - 1) : BreakAt(s, i)
    THEN LET at == CHOOSE i \in start..(Len(s) - 1) :
                       BreakAt(s, i) /\ \A j \in start..(i - 1) : ~BreakAt(s, j)
         IN <<SubSeq(s, start, at - 1)>> \o LinesFrom(s, at + 2)
    ELSE <<SubSeq(s, start, Len(s))>>

SplitLines(s) == LinesFrom(s, 1)

RECURSIVE PartsFrom(_, _, _, _)
PartsFrom(s, sep, start, i) ==
    IF i > Len(s) THEN <<SubSeq(s, start, Len(s))>>
    ELSE IF s[i] = sep THEN <<SubSeq(s, start, i - 1)>> \o PartsFrom(s, sep, i + 1, i + 1)
    ELSE PartsFrom(s, sep, start, i + 1)

Components(value) == PartsFrom(value, ";", 1, 1)

\* the text of a line after its first ':' (empty when it has none)
LineValue(line) ==
    IF \E i \in 1..Len(line) : line[i] = ":"
    THEN SubSeq(line, 1 + (CHOOSE i \in 1..Len(line) :
                               line[i] = ":" /\ \A j \in 1..(i - 1) : line[j] # ":"),
                Len(line))
    ELSE <<>>

\* the place of a line in the fixed order, 0 for a line the order does not list
LineRank(line) ==
    CASE line = <<"B", "E", "G", "I", "N", ":", "V", "C", "A", "R", "D">> -> 1
      [] line = <<"V", "E", "R", "S", "I", "O", "N", ":", "3", ".", "0">> -> 2
      [] StartsWith(line, <<"N", ":">>) -> 3
      [] StartsWith(line, <<"F", "N", ":">>) -> 4
      [] StartsWith(line, <<"P", "H", "O", "T", "O">>) -> 5
      [] StartsWith(line, <<"T", "E", "L", ";", "T", "Y", "P", "E", "=", "C", "E", "L", "L">>) -> 6
      [] StartsWith(line, <<"T", "E", "L", ";", "T", "Y", "P", "E", "=", "W", "O", "R", "K">>) -> 7
      [] StartsWith(line, <<"E", "M", "A", "I", "L">>) -> 8
      [] StartsWith(line, <<"O", "R", "G", ":">>) -> 9
      [] StartsWith(line, <<"T", "I", "T", "L", "E", ":">>) -> 10
      [] StartsWith(line, <<"U", "R", "L", ":">>) -> 11
      [] StartsWith(line, <<"A", "D", "R">>) -> 12
      [] StartsWith(line, <<"L", "A", "B", "E", "L">>) -> 12
      [] StartsWith(line, <<"N", "O", "T", "E", ":">>) -> 13
      [] line = <<"E", "N", "D", ":", "V", "C", "A", "R", "D">> -> 14
      [] OTHER -> 0

\* the record's field that a place in the order stands for
RankField(r) ==
    CASE r = 5 -> "profile_picture" [] r = 6 -> "mobile_number" [] r = 7 -> "work_number"
      [] r = 8 -> "email" [] r = 9 -> "company" [] r = 10 -> "title"
      [] r = 11 -> "website" [] r = 12 -> "address" [] r = 13 -> "notes"

FieldPresent(data, k) ==
    IF k = "address"
    THEN "address" \in DOMAIN data
           /\ \E f \in DOMAIN data["address"] : data["address"][f] # <<>>
    ELSE Has(data, k)

NamesGiven(data) == Has(data, "first_name") /\ Has(data, "last_name")

\* C11 (as stated): encode fails with EncodingError whenever first_name or
\* last_name is empty or missing and produces no payload then; when both are
\* non-empty the payload contains the begin, version, N and FN lines.
C11_NamelessFails ==
    \A i \in 1..Len(payloads) :
        /\ ~NamesGiven(vcard_data) => ~payloads[i].ok
        /\ (NamesGiven(vcard_data) /\ payloads[i].ok) =>
              LET lines == SplitLines(payloads[i].value)
              IN /\ Len(lines) >= 4
                 /\ \A r \in 1..4 : LineRank(lines[r]) = r

\* C12 (as stated): the payload's lines are, in this order, the begin marker,
\* version, N, FN, photo, mobile phone, work phone, email, org, title, url,
\* address, notes and the end marker; the line of an absent field is left
\* out, that of a present field is there, and the end marker is the last line.
C12_FixedOrder ==
    \A i \in 1..Len(payloads) :
        payloads[i].ok =>
            LET lines == SplitLines(payloads[i].value)
                n == Len(lines)
            IN /\ \A a \in 1..n : LineRank(lines[a]) # 0
               /\ \A a, b \in 1..n : a < b => LineRank(lines[a]) <= LineRank(lines[b])
               /\ lines[n] = <<"E", "N", "D", ":", "V", "C", "A", "R", "D">>
               /\ \A r \in 5..13 :
                     FieldPresent(vcard_data, RankField(r))
                         <=> \E a \in 1..n : LineRank(lines[a]) = r

\* C13 (as stated): the PHOTO line never carries inline image data: whatever
\* profile_picture is, an inline 'data:image...' value included, the PHOTO
\* value is a reference to the image and not the image data itself.
C13_PhotoIsReference ==
    \A i \in 1..Len(payloads) :
        payloads[i].ok =>
            LET lines == SplitLines(payloads[i].value)
            IN \A a \in 1..Len(lines) :
                   LineRank(lines[a]) = 5 =>
                       ~StartsWith(LineValue(lines[a]), <<"d", "a", "t", "a", ":">>)

AllPopulated(data) ==
    /\ NamesGiven(data)
    /\ \A k \in OptionalKeys : k \in DOMAIN data /\ data[k] # <<>>
    /\ \A f \in {"street", "city", "state", "zip_code", "country"} :
          f \in DOMAIN data["address"] /\ data["address"][f] # <<>>

\* the value of the one line of a rank
ValueAt(lines, r) ==
    LineValue(lines[CHOOSE a \in 1..Len(lines) : LineRank(lines[a]) = r])

\* C19 (as stated): for a record with every optional field populated, reading
\* the payload's lines by the grammar recovers first_name, last_name, email,
\* the normalized phone numbers, company, title, website and the five address
\* sub-fields unchanged.
C19_RoundTrip ==
    \A i \in 1..Len(payloads) :
        (payloads[i].ok /\ AllPopulated(vcard_data)) =>
            LET lines == SplitLines(payloads[i].value)
                name == Components(ValueAt(lines, 3))
                adr == Components(ValueAt(lines, 12))
            IN /\ \A r \in {3, 6, 7, 8, 9, 10, 11, 12} :
                     \E a \in 1..Len(lines) : LineRank(lines[a]) = r
               /\ Len(name) = 5 /\ name[1] = vcard_data.last_name
               /\ name[2] = vcard_data.first_name
               /\ ValueAt(lines, 6) = format_phone_number(vcard_data.mobile_number).value
               /\ ValueAt(lines, 7) = format_phone_number(vcard_data.work_number).value
               /\ ValueAt(lines, 8) = vcard_data.email
               /\ ValueAt(lines, 9) = vcard_data.company
               /\ ValueAt(lines, 10) = vcard_data.title
               /\ ValueAt(lines, 11) = vcard_data.website
               /\ Len(adr) = 7
               /\ \A k \in 1..5 : adr[k + 2] = vcard_data.address[AddressFields[k]]

C16_SilentHostGivesPlainImage ==
    (Finished /\ style_config # <<>> /\ IsRemote(design.logo_url)
       /\ files # <<>> /\ ~files[1].responds)
    => (pc = "done" /\ ~HasPaste(result[1]))

\* C17: when logo_url is unset the logo step changes nothing: it leaves the
\* image as the renderer and the eye overlay drew it, and that image is the
\* one returned.
C17_NoLogoPassthrough ==
    [][/\ (pc = "logo" /\ design.logo_url = <<>>)
            => (qr_image' = qr_image /\ pc' = "save")
       /\ (pc = "save" /\ design.logo_url = <<>>) => result' = qr_image]_vars

\* C17 witness: a call without logo_url has returned the image that stood
\* after the eye overlay (two render operations and nine rectangles).
C17_Witness ==
    /\ pc = "done" /\ design.logo_url = <<>>
    /\ result = qr_image /\ Len(result[1].ops) = 11 /\ ~HasPaste(result[1])

NamedStyles == {<<"s", "q", "u", "a", "r", "e">>, <<"r", "o", "u", "n", "d", "e", "d">>, <<"d", "o", "t", "s">>, <<"c", "i", "r", "c", "l", "e">>, <<"g", "a", "p", "p", "e", "d">>}

\* the drawing rule the contract gives a style
NamedRule(style) ==
    CASE style = <<"s", "q", "u", "a", "r", "e">> -> "SquareModuleDrawer"
      [] style = <<"r", "o", "u", "n", "d", "e", "d">> -> "RoundedModuleDrawer"
      [] style \in {<<"d", "o", "t", "s">>, <<"c", "i", "r", "c", "l", "e">>} -> "CircleModuleDrawer"
      [] style = <<"g", "a", "p", "p", "e", "d">> -> "GappedSquareModuleDrawer"

\* C18 (as stated): the options are accepted only when pattern_style is one
\* of square, rounded, dots (circle) or gapped, every other value is rejected
\* with a ValidationError, and each accepted value selects its own rule.
C18_ClosedStyleSet ==
    (pc # "call" /\ FieldErrors(design) \subseteq {"pattern_style"}) =>
        /\ style_config # <<>> <=> Lower(design.pattern_style) \in NamedStyles
        /\ style_config = <<>> => error = "ValidationError"
        /\ qr_image # <<>> =>
              qr_image[1].ops[2].module_drawer.class
                  = NamedRule(Lower(design.pattern_style))

\* C20 (as stated): outside the finder zones a dark cell is drawn as a shape
\* of module_color on background_color and a light cell is entirely
\* background_color.  Read on the image as it stands before the logo.
C20_CellsInModuleColour ==
    pc = "logo" =>
        LET img == qr_image[1]
            n == qr[1].modules_count
            box == design.box_size
            ink == hex_to_rgb(design.module_color).value
            paper == hex_to_rgb(design.background_color).value
        IN \A r, c \in 0..(n - 1) :
               ~InFinder(n, r, c) =>
                   LET x0 == (c + design.border) * box
                       y0 == (r + design.border) * box
                   IN IF IsDark(qr[1], r, c)
                      THEN /\ Pixel(img, x0 + box \div 2, y0 + box \div 2) = ink
                           /\ \A dx, dy \in 0..(box - 1) :
                                  Pixel(img, x0 + dx, y0 + dy) \in {ink, paper}
                      ELSE \A dx, dy \in 0..(box - 1) :
                               Pixel(img, x0 + dx, y0 + dy) = paper

(***************************************************************************)
(* Claims about concurrent calls, checked under SpecPair                   *)
(***************************************************************************)
\* what a call gives when it runs alone on its inputs
Alone(design_, data, more) ==
    LET built == QRDesignOptions(design_)
        content == generate_vcard_content(data, 0)
    IN IF ~built.ok THEN Raised(built.error)
       ELSE IF ~content.ok THEN Raised(content.error)
       ELSE LET config == built.value
                n == Len(content.value) + more
                v == best_fit(n, config.error_correction)
            IN IF v = 0 THEN Raised("DataOverflowError")
               ELSE LET made ==
                            make_image([version |-> v,
                                        error_correction |-> config.error_correction,
                                        modules_count |-> 4 * v + 17, data_bytes |-> n,
                                        filling |-> "checker"],
                                       config.box_size, config.border,
                                       get_module_drawer(config.pattern_style,
                                           hex_to_rgb(config.module_color).value).value,
                                       hex_to_rgb(config.module_color).value,
                                       hex_to_rgb(config.background_color).value,
                                       hex_to_rgb(config.eye_color).value)
                    IN Returned([made EXCEPT !.ops = @ \o DrawnEyes(made.side, config)])

\* C15: whatever the interleaving of concurrent calls, each call ends with
\* the result (the image or the error) it gives when run alone on its
\* inputs, and no drawer or image object is used by two calls.
C15_CallsDoNotInterfere ==
    /\ \A i \in DOMAIN calls :
          LET c == calls[i]
              alone == Alone(c.design, c.data, c.more)
          IN /\ c.pc = "done" => (alone.ok /\ c.result = <<alone.value>>)
             /\ c.pc = "failed" => (~alone.ok /\ c.error = alone.error /\ c.result = <<>>)
    /\ \A i, j \in DOMAIN calls :
          (i # j /\ calls[i].module_drawer # 0 /\ calls[i].image # 0) =>
              /\ calls[i].module_drawer \notin {calls[j].module_drawer, calls[j].eye_drawer}
              /\ calls[i].image # calls[j].image

\* C15 witness: two calls with different options have both returned after
\* interleaved steps: call 2 took its drawer first, call 1 created its image
\* first.
C15_Witness ==
    /\ calls # <<>>
    /\ calls[1].pc = "done" /\ calls[2].pc = "done"
    /\ calls[1].design # calls[2].design
    /\ calls[1].image = 1 /\ calls[2].image = 2
    /\ calls[1].module_drawer > calls[2].module_drawer

(***************************************************************************)
(* Claims about the logo's mask and source, checked under Spec             *)
(***************************************************************************)
\* the paste a finished call made, when it made one
LastPaste(img) == img.ops[Len(img.ops)]

\* the pixels of the logo's square the flags call for: inside the circle
\* when the mask is on, and there the logo's own pixels, or every pixel of
\* the shape when the white backing is on
FlagsCover(op, config, x, y) ==
    /\ x >= op.x /\ x < op.x + op.size /\ y >= op.y /\ y < op.y + op.size
    /\ ~config.logo_round \/ InDisc(x - op.x, y - op.y, op.size)
    /\ op.logo.opaque \/ config.logo_background

\* C21 (as stated): the circular mask is applied exactly when logo_round is
\* set and the white backing exactly when logo_background is set, so the
\* pixels the composited logo covers are those the two flags call for.
C21_MaskFollowsFlags ==
    (pc = "done" /\ HasPaste(result[1])) =>
        LET op == LastPaste(result[1])
        IN \A x, y \in op.x..(op.x + op.size - 1) :
               PasteCover(op, x, y) <=> FlagsCover(op, style_config[1], x, y)

(***************************************************************************)
(* Claims about the optional lines of the payload, checked under           *)
(* SpecEncode                                                              *)
(***************************************************************************)
IsAdr(line) == StartsWith(line, <<"A", "D", "R">>)

\* the properties of the contract's grammar: the begin and version lines, N,
\* FN, PHOTO, TEL, EMAIL, ORG, TITLE, URL, ADR, NOTE and the end marker
InGrammar(line) ==
    LineRank(line) # 0 /\ ~StartsWith(line, <<"L", "A", "B", "E", "L">>)

\* the ADR line is there exactly when a sub-field is non-empty
AdrIffAnyPart(data, lines) ==
    FieldPresent(data, "address") <=> \E a \in 1..Len(lines) : IsAdr(lines[a])

\* an ADR line has seven positions: two empty ones, then the five sub-fields
AdrSevenParts(data, lines) ==
    \A a \in 1..Len(lines) :
        IsAdr(lines[a]) =>
            LET parts == Components(LineValue(lines[a]))
            IN /\ Len(parts) = 7
               /\ parts[1] = <<>> /\ parts[2] = <<>>
               /\ \A k \in 1..5 :
                      parts[k + 2] = Get(data["address"], AddressFields[k], <<>>)

\* the line of every other optional field is there exactly when the field is
OptionalIffPresent(data, lines) ==
    \A r \in {5, 6, 7, 8, 9, 10, 11, 13} :
        Has(data, RankField(r)) <=> \E a \in 1..Len(lines) : LineRank(lines[a]) = r

\* C22 (as stated): ADR is emitted exactly when at least one address
\* sub-field is non-empty and then has exactly seven positions; every other
\* optional line is emitted exactly when its field is present and non-empty;
\* and no line of a property outside the grammar is emitted.
C22_OptionalLines ==
    \A i \in 1..Len(payloads) :
        payloads[i].ok =>
            LET lines == SplitLines(payloads[i].value)
            IN /\ AdrIffAnyPart(vcard_data, lines)
               /\ AdrSevenParts(vcard_data, lines)
               /\ OptionalIffPresent(vcard_data, lines)
               /\ \A a \in 1..Len(lines) : InGrammar(lines[a])

\* the notes as the contract writes them: carriage returns dropped, each line
\* feed written as a backslash and an n
RECURSIVE Flatten(_)
Flatten(texts) == IF texts = <<>> THEN <<>> ELSE Head(texts) \o Flatten(Tail(texts))

OneLineNotes(notes_content) ==
    LET kept == SelectSeq(notes_content, LAMBDA c : c # "\r")
    IN Flatten([k \in 1..Len(kept) |-> IF kept[k] = "\n" THEN <<"\\", "n">> ELSE <<kept[k]>>])

\* C23: when notes are given, the payload has the line NOTE:<notes written on
\* one line>, that text holds no line feed and no carriage return, and the
\* line after it is the next line the encoder writes.
C23_NoteOnOneLine ==
    \A i \in 1..Len(payloads) :
        (payloads[i].ok /\ Has(vcard_data, "notes")) =>
            LET lines == SplitLines(payloads[i].value)
                text == OneLineNotes(vcard_data.notes)
            IN /\ \A k \in 1..Len(text) : text[k] \notin {"\r", "\n"}
               /\ \E a \in 1..(Len(lines) - 1) :
                     /\ lines[a] = <<"N", "O", "T", "E", ":">> \o text
                     /\ StartsWith(lines[a + 1], <<"R", "E", "V", ":">>)

\* C23 witness: notes that hold a CRLF pair, a property-like text and a
\* final CRLF have been encoded.
C23_Witness ==
    /\ payloads # <<>> /\ payloads[1].ok
    /\ "notes" \in DOMAIN vcard_data
    /\ vcard_data.notes = <<"a", "\r", "\n", "T", "E", "L", ":", "1", "\r", "\n">>

(***************************************************************************)
(* Claims about the country code and repeated normalizing, checked under   *)
(* SpecPhone                                                               *)
(***************************************************************************)
\* the digits of the input with one leading 0 removed
NationalDigits(raw) ==
    LET d == OnlyDigits(raw)
    IN IF d # <<>> /\ d[1] = "0" THEN SubSeq(d, 2, Len(d)) ELSE d

\* C24 (as stated): every input with exactly 10 digits left after stripping
\* non-digits and one leading 0 is returned as +91 and those 10 digits, and
\* an input of 11 to 15 digits that carries its country code is returned
\* with its digits unchanged.
C24_Original ==
    formatted # <<>> =>
        LET d == OnlyDigits(phone)
            n == NationalDigits(phone)
        IN /\ Len(n) = 10 => formatted[1] = Returned(<<"+", "9", "1">> \o n)
           /\ (Len(d) \in 11..15 /\ d[1] # "0") => formatted[1] = Returned(<<"+">> \o d)

\* C24 (amended): an input with exactly 10 digits left that do not begin with
\* 91 is returned as +91 and those 10 digits; 10 digits that begin with 91
\* are taken to carry the country code already and are rejected for their
\* length; an input of 11 to 15 digits without a leading 0 is returned with
\* its digits unchanged.
C24_DefaultCountryCode ==
    formatted # <<>> =>
        LET d == OnlyDigits(phone)
            n == NationalDigits(phone)
        IN /\ (Len(n) = 10 /\ ~StartsWith(n, <<"9", "1">>))
                 => formatted[1] = Returned(<<"+", "9", "1">> \o n)
           /\ (Len(n) = 10 /\ StartsWith(n, <<"9", "1">>))
                 => formatted[1] = Raised("ValueError")
           /\ (Len(d) \in 11..15 /\ d[1] # "0") => formatted[1] = Returned(<<"+">> \o d)

\* C24 witness: ten digits written with a separator and without a country
\* code came back with +91 in front.
C24_Witness ==
    /\ formatted # <<>> /\ formatted[1].ok
    /\ phone # <<>> /\ phone[1] = "1" /\ Len(phone) > 10
    /\ Len(OnlyDigits(phone)) = 10
    /\ formatted[1].value = <<"+", "9", "1">> \o OnlyDigits(phone)

\* C25 (as stated): normalizing a returned number again succeeds and gives
\* the same number.
C25_Idempotent ==
    Len(formatted) = 2 => formatted[2] = formatted[1]

(***************************************************************************)
(* Claims about what a field value can do to the payload's lines, checked  *)
(* under SpecEncode                                                        *)
(***************************************************************************)
\* the property name of a line: its text before the first ':' or ';'
PropertyName(line) ==
    IF \E i \in 1..Len(line) : line[i] \in {":", ";"}
    THEN SubSeq(line, 1, (CHOOSE i \in 1..Len(line) :
                              line[i] \in {":", ";"}
                                /\ \A j \in 1..(i - 1) : line[j] \notin {":", ";"}) - 1)
    ELSE line

\* a record with the same fields present and plain values in them
SamePresence(data) ==
    [k \in DOMAIN data |->
        IF k = "address"
        THEN [f \in DOMAIN data[k] |-> IF data[k][f] = <<>> THEN <<>> ELSE FullAddress[f]]
        ELSE IF data[k] = <<>> THEN <<>> ELSE FullRecord[k]]

\* C26 (as stated): the number of lines of the payload and the property name
\* of each line are those of a record with the same fields present, whatever
\* characters the values hold.
C26_ValuesCannotAddLines ==
    \A i \in 1..Len(payloads) :
        payloads[i].ok =>
            LET lines == SplitLines(payloads[i].value)
                plain == SplitLines(generate_vcard_content(SamePresence(vcard_data), now).value)
            IN /\ Len(lines) = Len(plain)
               /\ \A a \in 1..Len(lines) : PropertyName(lines[a]) = PropertyName(plain[a])

(***************************************************************************)
(* Claims about where the composited logo comes from, checked under Spec   *)
(***************************************************************************)
\* the places that hold the image logo_url designates: the remote URL
\* itself, or the local path as given, relative, or under the module's
\* directory
Designated(logo_url) == IF IsRemote(logo_url) THEN {logo_url} ELSE OwnPaths(logo_url)

\* C27 (as stated): a logo that is composited is the image logo_url
\* designates; when logo_url cannot be resolved no other image takes its
\* place and the image returned has no logo.
C27_LogoIsTheOneNamed ==
    (pc = "done" /\ HasPaste(result[1])) =>
        LastPaste(result[1]).logo.source \in Designated(design.logo_url)

(***************************************************************************)
(* Claims about the circuit breaker, checked under SpecBreaker             *)
(***************************************************************************)
\* C28 (as stated): a service leaves CLOSED for OPEN only after
\* failure_threshold failed calls of that same service since it was last set
\* CLOSED; calls of other services neither cause nor hasten it.
C28_OwnFailuresOpen ==
    \A n \in DOMAIN own_failures :
        get_service_state(Breaker, n) \in {"OPEN", "HALF_OPEN"}
            => own_failures[n] >= failure_threshold

\* C29 (as stated): while a service is OPEN and fewer than recovery_timeout
\* seconds have passed since that service's last failure, a call_service for
\* it raises and does not start the wrapped function.
C29_OpenWindowRefuses ==
    (last # <<>> /\ last.kind = "invoked" /\ last.current_state = "OPEN") =>
        /\ last_failed[last.service] # <<>>
        /\ clock - last_failed[last.service][1] >= recovery_timeout

\* C30 (as stated): the call that finds a service OPEN with its recovery
\* timeout elapsed is the probe; when the probe returns the service is CLOSED
\* and the failure counter is 0, and when it raises the service is OPEN.
C30_ProbeCloses ==
    (last # <<>> /\ last.current_state = "OPEN") =>
        /\ last.kind = "returned" =>
              (get_service_state(Breaker, last.service) = "CLOSED" /\ failures = 0)
        /\ last.kind = "raised" => get_service_state(Breaker, last.service) = "OPEN"

====
